---- MODULE Spec2Model ----
(***************************************************************************)
(* Verification model of the ALA iChatBio agent: the Redis-backed species  *)
(* resolver (parameter_resolver.py) and the plan-based request handler     *)
(* (ala_ichatbio_agent.py).                                                *)
(*                                                                         *)
(* Python values are modelled as follows.  A str is a TLA+ string, and     *)
(* None in a string-valued position is the distinguished string None.  A   *)
(* dict is a function whose domain is its set of keys; None in a           *)
(* dict-valued position is the function with the empty domain, which is    *)
(* falsy exactly like None ("if cached:", "if not record").  The cache     *)
(* stores json.dumps(value) and returns json.loads(raw); for dicts of      *)
(* strings, booleans and None this pair is lossless, so the cache holds    *)
(* the dict itself.                                                        *)
(***************************************************************************)
EXTENDS Integers, Sequences, FiniteSets, TLC

None == "None"

PyNone == [k \in {} |-> None]

\* Python truthiness of an Optional[str]
Truthy(v) == v # None /\ v # ""

\* Python truthiness of an Optional[dict]
TruthyDict(d) == DOMAIN d # {}

\* dict.get(key) with default None
DictGet(d, k) == IF k \in DOMAIN d THEN d[k] ELSE None

\* -------------------------------------------------------------------------
\* str.lower() and str.startswith()
\* -------------------------------------------------------------------------

LowerChar(c) ==
    CASE c = "A" -> "a" [] c = "B" -> "b" [] c = "C" -> "c" [] c = "D" -> "d"
      [] c = "E" -> "e" [] c = "F" -> "f" [] c = "G" -> "g" [] c = "H" -> "h"
      [] c = "I" -> "i" [] c = "J" -> "j" [] c = "K" -> "k" [] c = "L" -> "l"
      [] c = "M" -> "m" [] c = "N" -> "n" [] c = "O" -> "o" [] c = "P" -> "p"
      [] c = "Q" -> "q" [] c = "R" -> "r" [] c = "S" -> "s" [] c = "T" -> "t"
      [] c = "U" -> "u" [] c = "V" -> "v" [] c = "W" -> "w" [] c = "X" -> "x"
      [] c = "Y" -> "y" [] c = "Z" -> "z" [] OTHER -> c

RECURSIVE lower(_)
lower(s) ==
    IF s = "" THEN ""
    ELSE LowerChar(SubSeq(s, 1, 1)) \o lower(SubSeq(s, 2, Len(s)))

startswith(s, prefix) ==
    Len(s) >= Len(prefix) /\ SubSeq(s, 1, Len(prefix)) = prefix

\* Python's "sub in s" for strings
Contains(s, sub) ==
    \E k \in 1..(Len(s) - Len(sub) + 1) : SubSeq(s, k, k + Len(sub) - 1) = sub

\* -------------------------------------------------------------------------
\* Key helpers
\* -------------------------------------------------------------------------

_key_scientific(name) == "scientific:" \o lower(name)

_key_vernacular(name) == "vernacular:" \o lower(name)

_key_synonym(name) == "synonym:" \o lower(name)

_key_lsid(lsid) == "lsid:" \o lsid

_key_no_match(name) == "noMatch:" \o lower(name)

\* -------------------------------------------------------------------------
\* LSID detection
\* -------------------------------------------------------------------------

_is_lsid_afd_only(value) ==
    startswith(value, "https://biodiversity.org.au/afd/taxa/")

_is_lsid(value) ==
    \/ startswith(value, "https://biodiversity.org.au/afd/taxa/")
    \/ startswith(value, "https://id.biodiversity.org.au/taxon/")
    \/ startswith(value, "https://biodiversity.org.au/apni/")

\* -------------------------------------------------------------------------
\* Basic Redis helpers
\* -------------------------------------------------------------------------

_redis_get(c, key) == IF key \in DOMAIN c THEN c[key] ELSE PyNone

_redis_set(c, key, value) ==
    [k \in DOMAIN c \cup {key} |-> IF k = key THEN value ELSE c[k]]

\* -------------------------------------------------------------------------
\* The external name-matching service (search_scientific_name and
\* search_vernacular_name): the identifiers a caller may pass and, for each,
\* the answers the service may give.  An answer is the response dict, or
\* ConnErr when the call raises ConnectionError.
\* -------------------------------------------------------------------------

LSID_K == "https://biodiversity.org.au/afd/taxa/k1"

LSID_T == "https://id.biodiversity.org.au/taxon/t2"

LSID_A == "https://id.biodiversity.org.au/node/apni/a3"

Names == {"koala", "Koala", "Phascolarctos cinereus", "Lipurus cinereus",
          "Acacia", "xyzzy"}

Identifiers == Names \cup {LSID_K, LSID_T, LSID_A}

MatchRecord(mt, nt, sci, vern, lsid, syn, rank) ==
    [success |-> TRUE, matchType |-> mt, nameType |-> nt,
     scientificName |-> sci, vernacularName |-> vern,
     taxonConceptID |-> lsid, synonymType |-> syn, rank |-> rank]

KoalaVern == MatchRecord("vernacularMatch", "INFORMAL",
                         "Phascolarctos cinereus", "Koala", LSID_K, None, "species")

KoalaSci == MatchRecord("exactMatch", "SCIENTIFIC",
                        "Phascolarctos cinereus", "Koala", LSID_K, None, "species")

KoalaSyn == MatchRecord("exactMatch", "SCIENTIFIC",
                        "Phascolarctos cinereus", "Koala", LSID_K, "SYNONYM", "species")

KoalaFuzzy == MatchRecord("fuzzyMatch", "SCIENTIFIC",
                          "Phascolarctos cinereus", "Koala", LSID_K, None, "species")

AcaciaSci == MatchRecord("exactMatch", "SCIENTIFIC",
                         "Acacia", None, LSID_A, None, "genus")

AcaciaId == MatchRecord("taxonIdMatch", "SCIENTIFIC",
                        "Acacia", None, LSID_A, None, "genus")

NoMatchAns == [success |-> FALSE, matchType |-> None, nameType |-> None,
               scientificName |-> None, vernacularName |-> None,
               taxonConceptID |-> None, synonymType |-> None, rank |-> None]

ConnErr == [connectionError |-> TRUE]

search_scientific_name(name) ==
    {ConnErr} \cup
    (CASE name = "Phascolarctos cinereus" -> {KoalaSci}
       [] name = "Lipurus cinereus" -> {KoalaSyn}
       [] name \in {"koala", "Koala"} -> {KoalaFuzzy, NoMatchAns}
       [] name = "Acacia" -> {AcaciaSci}
       [] name = LSID_A -> {AcaciaId}
       [] OTHER -> {NoMatchAns})

search_vernacular_name(name) ==
    {ConnErr} \cup
    (CASE name \in {"koala", "Koala"} -> {KoalaVern, NoMatchAns}
       [] OTHER -> {NoMatchAns})

\* -------------------------------------------------------------------------
\* Store full ALA response in Redis under multiple keys
\* -------------------------------------------------------------------------

_store_full_response_input_key_only(c, original_name, data) ==
    _redis_set(c, _key_scientific(original_name), data)

_store_full_response(c, original_name, data) ==
    LET sci_name == DictGet(data, "scientificName")
        vernacular == DictGet(data, "vernacularName")
        lsid == DictGet(data, "taxonConceptID")
        synonym_type == DictGet(data, "synonymType")
        c1 == _redis_set(c, _key_scientific(original_name), data)
        c2 == IF Truthy(sci_name)
              THEN _redis_set(c1, _key_scientific(sci_name), data) ELSE c1
        c3 == IF Truthy(vernacular)
              THEN _redis_set(c2, _key_vernacular(vernacular), data) ELSE c2
        c4 == IF /\ Truthy(synonym_type)
                 /\ lower(original_name) #
                      lower(IF Truthy(sci_name) THEN sci_name ELSE "")
              THEN _redis_set(c3, _key_synonym(original_name), data) ELSE c3
    IN  IF Truthy(lsid) THEN _redis_set(c4, _key_lsid(lsid), data) ELSE c4

\* -------------------------------------------------------------------------
\* Fuzzy / prefix lookup hooks (placeholders that return None)
\* -------------------------------------------------------------------------

_redis_fuzzy_lookup(c, name) == PyNone

_redis_prefix_lookup(c, name) == PyNone

\* -------------------------------------------------------------------------
\* Redis-only resolution
\* -------------------------------------------------------------------------

_resolve_via_redis_only(c, name) ==
    LET byLsid == IF _is_lsid(name) THEN _redis_get(c, _key_lsid(name)) ELSE PyNone
        bySci == _redis_get(c, _key_scientific(name))
        byVern == _redis_get(c, _key_vernacular(name))
        bySyn == _redis_get(c, _key_synonym(name))
        fuzzy == _redis_fuzzy_lookup(c, name)
        prefix == _redis_prefix_lookup(c, name)
        no_match == _redis_get(c, _key_no_match(name))
    IN  IF TruthyDict(byLsid) THEN byLsid
        ELSE IF TruthyDict(bySci) THEN bySci
        ELSE IF TruthyDict(byVern) THEN byVern
        ELSE IF TruthyDict(bySyn) THEN bySyn
        ELSE IF TruthyDict(fuzzy) THEN fuzzy
        ELSE IF TruthyDict(prefix) THEN prefix
        ELSE IF TruthyDict(no_match) THEN PyNone
        ELSE PyNone

\* -------------------------------------------------------------------------
\* resolve_species_name: the returned dict (ret), whether the call raised,
\* the cache it leaves and the number of external name-matching calls (ext)
\* -------------------------------------------------------------------------

is_valid_vernacular(d) ==
    /\ TruthyDict(d)
    /\ DictGet(d, "success") = TRUE
    /\ DictGet(d, "matchType") = "vernacularMatch"
    /\ DictGet(d, "nameType") \in {"INFORMAL", "COMMON"}

is_valid_scientific_any_match(d) ==
    /\ TruthyDict(d)
    /\ DictGet(d, "success") = TRUE
    /\ DictGet(d, "nameType") = "SCIENTIFIC"

is_valid_scientific(d) ==
    /\ TruthyDict(d)
    /\ DictGet(d, "success") = TRUE
    /\ DictGet(d, "nameType") = "SCIENTIFIC"
    /\ DictGet(d, "matchType") \in {"exactMatch", "phraseMatch", "taxonIdMatch"}

MinimalRecord(name) ==
    [scientificName |-> None, taxonConceptID |-> name, rank |-> None,
     vernacularName |-> None, issues |-> <<"noIssue">>]

Outcome(ret, raised, c, ext) ==
    [ret |-> ret, raised |-> raised, cache |-> c, ext |-> ext]

resolve_species_name_conn_error_as_no_match(c, name, sci_data, vern_data) ==
    LET cached == _resolve_via_redis_only(c, name)
        sci == IF sci_data = ConnErr THEN NoMatchAns ELSE sci_data
        vern == IF vern_data = ConnErr THEN NoMatchAns ELSE vern_data
    IN  IF TruthyDict(cached) THEN Outcome(cached, FALSE, c, 0)
        ELSE IF _is_lsid(name) THEN Outcome(MinimalRecord(name), FALSE, c, 0)
        ELSE IF is_valid_vernacular(vern)
             THEN Outcome(vern, FALSE, _store_full_response(c, name, vern), 2)
        ELSE IF is_valid_scientific(sci)
             THEN Outcome(sci, FALSE, _store_full_response(c, name, sci), 2)
        ELSE Outcome(PyNone, FALSE,
                     _redis_set(c, _key_no_match(name), [noMatch |-> TRUE]), 2)

resolve_species_name(c, name, sci_data, vern_data) ==
    LET cached == _resolve_via_redis_only(c, name)
    IN  IF TruthyDict(cached) THEN Outcome(cached, FALSE, c, 0)
        ELSE IF _is_lsid(name) THEN Outcome(MinimalRecord(name), FALSE, c, 0)
        ELSE IF sci_data = ConnErr THEN Outcome(PyNone, TRUE, c, 1)
        ELSE IF vern_data = ConnErr THEN Outcome(PyNone, TRUE, c, 2)
        ELSE IF is_valid_vernacular(vern_data)
             THEN Outcome(vern_data, FALSE, _store_full_response(c, name, vern_data), 2)
        ELSE IF is_valid_scientific(sci_data)
             THEN Outcome(sci_data, FALSE, _store_full_response(c, name, sci_data), 2)
        ELSE Outcome(PyNone, FALSE,
                     _redis_set(c, _key_no_match(name), [noMatch |-> TRUE]), 2)

\* -------------------------------------------------------------------------
\* resolve_species_name as concurrent tasks run it: one step per awaited
\* Redis or name-matching call (the fuzzy and prefix hooks return at once and
\* are no suspension point)
\* -------------------------------------------------------------------------

Write(key, value) == [key |-> key, value |-> value]

_store_full_response_steps_marker_first(original_name, data) ==
    LET sci_name == DictGet(data, "scientificName")
        vernacular == DictGet(data, "vernacularName")
        lsid == DictGet(data, "taxonConceptID")
        synonym_type == DictGet(data, "synonymType")
    IN  <<Write(_key_scientific(original_name), [pending |-> TRUE])>>
        \o (IF Truthy(sci_name)
            THEN <<Write(_key_scientific(sci_name), data)>> ELSE <<>>)
        \o (IF Truthy(vernacular)
            THEN <<Write(_key_vernacular(vernacular), data)>> ELSE <<>>)
        \o (IF /\ Truthy(synonym_type)
               /\ lower(original_name) #
                    lower(IF Truthy(sci_name) THEN sci_name ELSE "")
            THEN <<Write(_key_synonym(original_name), data)>> ELSE <<>>)
        \o (IF Truthy(lsid) THEN <<Write(_key_lsid(lsid), data)>> ELSE <<>>)
        \o <<Write(_key_scientific(original_name), data)>>

\* the _redis_set calls of _store_full_response, in the order made
_store_full_response_steps(original_name, data) ==
    LET sci_name == DictGet(data, "scientificName")
        vernacular == DictGet(data, "vernacularName")
        lsid == DictGet(data, "taxonConceptID")
        synonym_type == DictGet(data, "synonymType")
    IN  <<Write(_key_scientific(original_name), data)>>
        \o (IF Truthy(sci_name)
            THEN <<Write(_key_scientific(sci_name), data)>> ELSE <<>>)
        \o (IF Truthy(vernacular)
            THEN <<Write(_key_vernacular(vernacular), data)>> ELSE <<>>)
        \o (IF /\ Truthy(synonym_type)
               /\ lower(original_name) #
                    lower(IF Truthy(sci_name) THEN sci_name ELSE "")
            THEN <<Write(_key_synonym(original_name), data)>> ELSE <<>>)
        \o (IF Truthy(lsid) THEN <<Write(_key_lsid(lsid), data)>> ELSE <<>>)

\* a task inside resolve_species_name: the await it is suspended at, the
\* writes _store_full_response still has to make, and its result
Task(at, pending, ret, raised) ==
    [at |-> at, pending |-> pending, ret |-> ret, raised |-> raised]

Returned(ret) == Task("done", <<>>, ret, FALSE)

TaskStart(name) ==
    Task(IF _is_lsid(name) THEN "get_lsid" ELSE "get_scientific", <<>>, PyNone, FALSE)

\* after the Redis lookups missed: the LSID passthrough, or on to the
\* name-matching calls
AfterCacheMiss(name) ==
    IF _is_lsid(name) THEN Returned(MinimalRecord(name))
    ELSE Task("search_scientific_name", <<>>, PyNone, FALSE)

\* a lookup of _resolve_via_redis_only answered cached: return it, or go on
AfterLookup(cached, next) ==
    IF TruthyDict(cached) THEN Returned(cached)
    ELSE Task(next, <<>>, PyNone, FALSE)

\* both name-matching calls answered: validation and the priority rule
AfterNameMatching(name, sci_data, vern_data) ==
    IF is_valid_vernacular(vern_data)
    THEN Task("redis_set", _store_full_response_steps(name, vern_data), vern_data, FALSE)
    ELSE IF is_valid_scientific(sci_data)
    THEN Task("redis_set", _store_full_response_steps(name, sci_data), sci_data, FALSE)
    ELSE Task("redis_set", <<Write(_key_no_match(name), [noMatch |-> TRUE])>>,
              PyNone, FALSE)

\* the task t resumes on cache c: the task and the cache it leaves at its
\* next await or return
TaskStep(t, c, name, sci_data, vern_data) ==
    CASE t.at = "get_lsid" ->
             [task |-> AfterLookup(_redis_get(c, _key_lsid(name)), "get_scientific"),
              cache |-> c]
      [] t.at = "get_scientific" ->
             [task |-> AfterLookup(_redis_get(c, _key_scientific(name)), "get_vernacular"),
              cache |-> c]
      [] t.at = "get_vernacular" ->
             [task |-> AfterLookup(_redis_get(c, _key_vernacular(name)), "get_synonym"),
              cache |-> c]
      [] t.at = "get_synonym" ->
             [task |-> AfterLookup(_redis_get(c, _key_synonym(name)), "get_no_match"),
              cache |-> c]
      [] t.at = "get_no_match" ->
             [task |-> AfterCacheMiss(name), cache |-> c]
      [] t.at = "search_scientific_name" ->
             [task |-> IF sci_data = ConnErr THEN Task("done", <<>>, PyNone, TRUE)
                       ELSE Task("search_vernacular_name", <<>>, PyNone, FALSE),
              cache |-> c]
      [] t.at = "search_vernacular_name" ->
             [task |-> IF vern_data = ConnErr THEN Task("done", <<>>, PyNone, TRUE)
                       ELSE AfterNameMatching(name, sci_data, vern_data),
              cache |-> c]
      [] t.at = "redis_set" ->
             [task |-> Task(IF Len(t.pending) > 1 THEN "redis_set" ELSE "done",
                            Tail(t.pending), t.ret, FALSE),
              cache |-> _redis_set(c, Head(t.pending).key, Head(t.pending).value)]

\* the requests that resolve concurrently
Tasks == {"A", "B"}

\* the identifiers resolved concurrently
ConcurrentIdentifiers == {"koala", "Lipurus cinereus", "Acacia", "xyzzy", LSID_K}

\* the caches the concurrent resolves may start on: empty, or holding
\* another taxon
StartCaches == {[k \in {} |-> PyNone],
                _store_full_response([k \in {} |-> PyNone],
                                     "Phascolarctos cinereus", KoalaSci)}

\* -------------------------------------------------------------------------
\* Pick best species identifier from params
\* -------------------------------------------------------------------------

IdentifierKeys == <<"scientific_name", "species_name", "common_name", "q", "id">>

RECURSIVE PickFrom(_, _)
PickFrom(params, k) ==
    IF k > Len(IdentifierKeys) THEN None
    ELSE IF IdentifierKeys[k] \in DOMAIN params THEN params[IdentifierKeys[k]]
    ELSE PickFrom(params, k + 1)

_pick_species_identifier(params) == PickFrom(params, 1)

\* -------------------------------------------------------------------------
\* Attach extra metadata to params
\* -------------------------------------------------------------------------

DictSet(d, k, v) == [x \in DOMAIN d \cup {k} |-> IF x = k THEN v ELSE d[x]]

MetadataMapping == <<<<"vernacularName", "common_name">>, <<"rank", "rank">>,
                     <<"family", "family">>, <<"genus", "genus">>,
                     <<"species", "species">>, <<"kingdom", "kingdom">>>>

RECURSIVE AddFrom(_, _, _)
AddFrom(params, data, k) ==
    IF k > Len(MetadataMapping) THEN params
    ELSE LET src == MetadataMapping[k][1]
             dst == MetadataMapping[k][2]
         IN  IF Truthy(DictGet(data, src)) /\ dst \notin DOMAIN params
             THEN AddFrom(DictSet(params, dst, data[src]), data, k + 1)
             ELSE AddFrom(params, data, k + 1)

RECURSIVE AddFromOverwriting(_, _, _)
AddFromOverwriting(params, data, k) ==
    IF k > Len(MetadataMapping) THEN params
    ELSE LET src == MetadataMapping[k][1]
             dst == MetadataMapping[k][2]
         IN  IF Truthy(DictGet(data, src))
             THEN AddFromOverwriting(DictSet(params, dst, data[src]), data, k + 1)
             ELSE AddFromOverwriting(params, data, k + 1)

_add_extra_metadata_overwriting(params, data) == AddFromOverwriting(params, data, 1)

_add_extra_metadata(params, data) == AddFrom(params, data, 1)

\* -------------------------------------------------------------------------
\* resolve_unresolved_params: the ALASearchResponse it returns (extracted),
\* with the outcome of the resolve_species_name call it makes, if any
\* -------------------------------------------------------------------------

Clarify_reason_only(extracted, kind, identifier) ==
    [extracted EXCEPT !.clarification_reason = [kind |-> kind, identifier |-> identifier]]

Clarify(extracted, kind, identifier) ==
    [extracted EXCEPT !.clarification_needed = TRUE,
                      !.clarification_reason = [kind |-> kind, identifier |-> identifier]]

NoReason == [kind |-> "", identifier |-> None]

Resolution(extracted, raised, c, ext, called) ==
    [extracted |-> extracted, raised |-> raised, cache |-> c, ext |-> ext,
     called |-> called]

_after_resolve_lsid_only(extracted, species_identifier, o) ==
    LET params == extracted.params
        record == o.ret
        lsid == DictGet(record, "taxonConceptID")
        sci_name == DictGet(record, "scientificName")
        p1 == IF Truthy(sci_name) /\ "scientific_name" \notin DOMAIN params
              THEN DictSet(params, "scientific_name", sci_name) ELSE params
        p2 == IF Truthy(lsid) THEN DictSet(p1, "lsid", lsid) ELSE p1
        p3 == _add_extra_metadata(p2, record)
    IN  IF o.raised
        THEN Resolution(extracted, TRUE, o.cache, o.ext, TRUE)
        ELSE IF ~TruthyDict(record)
        THEN Resolution(Clarify(extracted, "could_not_identify", species_identifier),
                        FALSE, o.cache, o.ext, TRUE)
        ELSE Resolution([extracted EXCEPT !.params = p3,
                                          !.clarification_needed = FALSE,
                                          !.clarification_reason = NoReason],
                        FALSE, o.cache, o.ext, TRUE)

\* lines 333-358: what follows the resolve_species_name call, whose outcome is o
_after_resolve(extracted, species_identifier, o) ==
    LET params == extracted.params
        record == o.ret
        lsid == DictGet(record, "taxonConceptID")
        sci_name == DictGet(record, "scientificName")
        p1 == IF Truthy(sci_name) /\ "scientific_name" \notin DOMAIN params
              THEN DictSet(params, "scientific_name", sci_name) ELSE params
        p2 == IF Truthy(lsid)
              THEN DictSet(DictSet(p1, "lsid", lsid), "id", lsid) ELSE p1
        p3 == _add_extra_metadata(p2, record)
    IN  IF o.raised
        THEN Resolution(extracted, TRUE, o.cache, o.ext, TRUE)
        ELSE IF ~TruthyDict(record)
        THEN Resolution(Clarify(extracted, "could_not_identify", species_identifier),
                        FALSE, o.cache, o.ext, TRUE)
        ELSE Resolution([extracted EXCEPT !.params = p3,
                                          !.clarification_needed = FALSE,
                                          !.clarification_reason = NoReason],
                        FALSE, o.cache, o.ext, TRUE)

resolve_unresolved_params(extracted, c, sci_data, vern_data) ==
    LET params == extracted.params
        species_identifier == _pick_species_identifier(params)
    IN  IF Truthy(DictGet(params, "lsid"))
        THEN Resolution(extracted, FALSE, c, 0, FALSE)
        ELSE IF ~Truthy(species_identifier)
        THEN Resolution(Clarify(extracted, "need_species", None), FALSE, c, 0, FALSE)
        ELSE _after_resolve(extracted, species_identifier,
                            resolve_species_name(c, species_identifier,
                                                 sci_data, vern_data))

\* -------------------------------------------------------------------------
\* The research plan
\* -------------------------------------------------------------------------

ToolPlan(tool_name, priority) == [tool_name |-> tool_name, priority |-> priority]

LsidTools == {"get_species_distribution", "get_species_images",
              "search_species_occurrences"}

requires_lsid(plan) ==
    \E k \in 1..Len(plan) : plan[k].tool_name \in LsidTools

FallbackPlan == <<ToolPlan("lookup_species_info", "must_call"),
                  ToolPlan("search_species_occurrences", "must_call")>>

\* what can happen while create_research_plan runs: the model client cannot
\* be set up, the chain answers with a valid plan, the model call fails, its
\* output is malformed or schema-invalid, it times out, the task is cancelled
PlannerEvents == {"setup_error", "ok", "model_error", "schema_invalid",
                  "timeout", "cancelled"}

create_research_plan_catch_all(event, llm_plan) ==
    IF event = "setup_error"
    THEN [raised |-> TRUE, error |-> "PlannerSetupError", plan |-> <<>>]
    ELSE IF event = "ok"
    THEN [raised |-> FALSE, error |-> None, plan |-> llm_plan]
    ELSE [raised |-> FALSE, error |-> None, plan |-> FallbackPlan]

\* [raised, error, plan]
create_research_plan(event, llm_plan) ==
    IF event = "setup_error"
    THEN [raised |-> TRUE, error |-> "PlannerSetupError", plan |-> <<>>]
    ELSE IF event = "ok"
    THEN [raised |-> FALSE, error |-> None, plan |-> llm_plan]
    ELSE IF event = "cancelled"
    THEN [raised |-> TRUE, error |-> "CancelledError", plan |-> <<>>]
    ELSE [raised |-> FALSE, error |-> None, plan |-> FallbackPlan]

\* -------------------------------------------------------------------------
\* Tool adapters.  An adapter is invoked with the resolved parameter bag; api
\* is what the external request it performs (if it gets that far) comes back
\* with.  The result tells whether the adapter raised, the "success" of the
\* dict it returned, whether an external request was made, and what the
\* workflow replied to the user.
\* -------------------------------------------------------------------------

ApiResults == {"ok", "conn_error", "timeout", "empty_list"}

AdapterResult(success, raised, requested, reply, message) ==
    [success |-> success, raised |-> raised, requested |-> requested, reply |-> reply,
     message |-> message]

\* pydantic validation of the spatial field shared by OccurrenceSearchParams
\* and OccurrenceFacetsParams (lat: ge=-90, le=90)
LatValid(params) ==
    "lat" \notin DOMAIN params \/ (params["lat"] >= -90 /\ params["lat"] <= 90)

\* map_params_to_model(params, OccurrenceSearchParams): TRUE when it returns
\* a model and no missing field (the model has no required field), FALSE when
\* validation raises
map_params_to_model(params) == LatValid(params)

_search_species_occurrences(params, api) ==
    IF ~map_params_to_model(params)
    THEN AdapterResult(FALSE, FALSE, FALSE, None, "Error executing search")
    ELSE CASE api = "ok" ->
                  AdapterResult(TRUE, FALSE, TRUE, "summary", "Successfully found occurrence records")
           [] api = "timeout" ->
                  AdapterResult(TRUE, FALSE, TRUE, "api_timeout", "Successfully found occurrence records")
           [] api = "conn_error" ->
                  AdapterResult(TRUE, FALSE, TRUE, "api_error", "Successfully found occurrence records")
           [] OTHER -> AdapterResult(FALSE, FALSE, TRUE, None, "Error executing search")

_get_species_images(params, api) ==
    LET species_id == IF Truthy(DictGet(params, "id")) THEN params["id"]
                      ELSE DictGet(params, "lsid")
    IN  IF ~Truthy(species_id)
        THEN AdapterResult(FALSE, FALSE, FALSE, None,
                           "No valid species identifier (LSID) provided to fetch images.")
        ELSE CASE api = "ok" ->
                      AdapterResult(TRUE, FALSE, TRUE, "summary", "Species image search completed")
               [] api \in {"timeout", "conn_error"} ->
                      AdapterResult(TRUE, FALSE, TRUE, "api_error", "Species image search completed")
               [] OTHER -> AdapterResult(FALSE, FALSE, TRUE, None, "Error fetching images")

_lookup_species_info(params, api) ==
    LET species_name ==
            IF Truthy(DictGet(params, "scientific_name")) THEN params["scientific_name"]
            ELSE IF Truthy(DictGet(params, "species_name")) THEN params["species_name"]
            ELSE IF Truthy(DictGet(params, "common_name")) THEN params["common_name"]
            ELSE DictGet(params, "q")
    IN  IF ~Truthy(species_name)
        THEN AdapterResult(FALSE, FALSE, FALSE, None, "No species name provided for lookup.")
        ELSE CASE api = "timeout" ->
                      AdapterResult(TRUE, FALSE, TRUE, "api_timeout", "Found species information")
               [] api = "conn_error" ->
                      AdapterResult(TRUE, FALSE, TRUE, "api_error", "Found species information")
               [] OTHER -> AdapterResult(TRUE, FALSE, TRUE, "summary", "Found species information")

_get_species_distribution(params, api) ==
    LET lsid == IF Truthy(DictGet(params, "lsid")) THEN params["lsid"]
                ELSE DictGet(params, "id")
    IN  IF ~Truthy(lsid)
        THEN AdapterResult(FALSE, FALSE, FALSE, None,
                           "Missing LSID. Distribution data requires a resolved LSID.")
        ELSE CASE api = "ok" ->
                      AdapterResult(TRUE, FALSE, TRUE, "summary", "Retrieved distribution")
               [] api = "timeout" ->
                      AdapterResult(FALSE, FALSE, TRUE, "api_timeout",
                                    "Could not retrieve distribution")
               [] api = "conn_error" ->
                      AdapterResult(FALSE, FALSE, TRUE, "api_error",
                                    "Could not retrieve distribution")
               [] OTHER -> AdapterResult(FALSE, FALSE, TRUE, "no_data",
                                         "Could not retrieve distribution")

_get_occurrence_breakdown(params, api) ==
    IF ~LatValid(params)
    THEN AdapterResult(FALSE, FALSE, FALSE, None, "Error processing breakdown")
    ELSE CASE api = "timeout" ->
                  AdapterResult(TRUE, FALSE, TRUE, "api_timeout", "Successfully processed occurrence breakdown request")
           [] api = "conn_error" ->
                  AdapterResult(TRUE, FALSE, TRUE, "api_error", "Successfully processed occurrence breakdown request")
           [] OTHER -> AdapterResult(TRUE, FALSE, TRUE, "summary", "Successfully processed occurrence breakdown request")

_get_occurrence_taxa_count_unguarded(params, api) ==
    CASE api \in {"timeout", "conn_error"} ->
             AdapterResult(TRUE, FALSE, TRUE, "api_error", "Retrieved taxa count")
      [] OTHER -> AdapterResult(TRUE, FALSE, TRUE, "summary", "Retrieved taxa count")

_get_occurrence_taxa_count(params, api) ==
    LET lsid == DictGet(params, "lsid")
    IN  IF ~Truthy(lsid)
        THEN AdapterResult(FALSE, FALSE, FALSE, None,
                           "No LSID available for taxa count. Species resolution may have failed.")
        ELSE CASE api \in {"timeout", "conn_error"} ->
                      AdapterResult(TRUE, FALSE, TRUE, "api_error", "Retrieved taxa count")
               [] OTHER -> AdapterResult(TRUE, FALSE, TRUE, "summary", "Retrieved taxa count")

\* _finish posts the summary with context.reply and returns success; posting
\* may raise ("reply_error")
FinishResults == {"ok", "reply_error"}

_finish(posted) ==
    IF posted = "ok" THEN AdapterResult(TRUE, FALSE, FALSE, "summary", "summary")
    ELSE AdapterResult(FALSE, TRUE, FALSE, None, None)

\* tool_map
RegisteredTools == {"search_species_occurrences", "get_species_images",
                    "lookup_species_info", "get_species_distribution",
                    "get_occurrence_breakdown", "get_occurrence_taxa_count",
                    "finish"}

\* what an invocation of the tool can meet
InvocationEvents(tool_name) ==
    IF tool_name = "finish" THEN FinishResults ELSE ApiResults

tool_fn(tool_name, params, api) ==
    CASE tool_name = "search_species_occurrences" -> _search_species_occurrences(params, api)
      [] tool_name = "get_species_images" -> _get_species_images(params, api)
      [] tool_name = "lookup_species_info" -> _lookup_species_info(params, api)
      [] tool_name = "get_species_distribution" -> _get_species_distribution(params, api)
      [] tool_name = "get_occurrence_breakdown" -> _get_occurrence_breakdown(params, api)
      [] tool_name = "get_occurrence_taxa_count" -> _get_occurrence_taxa_count(params, api)
      [] tool_name = "finish" -> _finish(api)

Invocation_exception_as_success(tool_name, priority, params, api) ==
    LET r == tool_fn(tool_name, params, api)
    IN  [tool_name |-> tool_name, priority |-> priority, api |-> api,
         raised |-> r.raised, requested |-> r.requested, reply |-> r.reply,
         message |-> r.message,
         success |-> (r.raised \/ r.success)]

\* the try/except around the call: an exception becomes a failed result
\* without recording the tool as executed
Invocation(tool_name, priority, params, api) ==
    LET r == tool_fn(tool_name, params, api)
    IN  [tool_name |-> tool_name, priority |-> priority, api |-> api,
         raised |-> r.raised, requested |-> r.requested, reply |-> r.reply,
         message |-> r.message,
         success |-> (~r.raised /\ r.success)]

InSeq(x, seq) == \E k \in 1..Len(seq) : seq[k] = x

must_call_tools_unfiltered(plan) == plan

must_call_tools(plan) == SelectSeq(plan, LAMBDA t : t.priority = "must_call")

optional_tools_first_only(plan) ==
    LET all == SelectSeq(plan, LAMBDA t : t.priority = "optional")
    IN  IF all = <<>> THEN <<>> ELSE <<all[1]>>

optional_tools(plan) == SelectSeq(plan, LAMBDA t : t.priority = "optional")

\* Phase 1: "Skip if already executed"
SkipMustCall_or_unregistered(tool_name, executed) ==
    InSeq(tool_name, executed) \/ tool_name \notin RegisteredTools

SkipMustCall(tool_name, executed) == InSeq(tool_name, executed)

\* Phase 2: "Skip if already executed" and "Skipping - not implemented"
SkipOptional(tool_name, executed) ==
    InSeq(tool_name, executed) \/ tool_name \notin RegisteredTools

\* Phase 1: "Check result"
MustCallSucceeded_always(result) == TRUE

MustCallSucceeded(result) == result.success

\* -------------------------------------------------------------------------
\* Inputs of a request: what the extractor and the planner model may return
\* -------------------------------------------------------------------------

MaxPlanLen == 2

PlannableTools == RegisteredTools \cup {"get_conservation_status"}

PlanEntries == {ToolPlan(t, p) : t \in PlannableTools, p \in {"must_call", "optional"}}

Plans == UNION {[1..n -> PlanEntries] : n \in 0..MaxPlanLen}

ALASearchResponse(params, clarification_needed, reason) ==
    [params |-> params, clarification_needed |-> clarification_needed,
     clarification_reason |-> reason]

ExtractedParams == {PyNone,
                    [q |-> "koala"],
                    [q |-> "xyzzy"],
                    [q |-> "koala", lsid |-> LSID_K],
                    [q |-> LSID_T],
                    [q |-> "koala", lat |-> 999]}

ExtractedResponses ==
    {ALASearchResponse(p, FALSE, NoReason) : p \in ExtractedParams}
    \cup {ALASearchResponse([q |-> "koala"], TRUE,
                            [kind |-> "extractor", identifier |-> None])}

\* -------------------------------------------------------------------------
\* The stand-alone species search workflow: ALA.search_species (ala_agent.py)
\* -------------------------------------------------------------------------

\* dict.get(key, default)
get(d, key, default) == IF key \in DOMAIN d THEN d[key] ELSE default

Digits == <<"0", "1", "2", "3", "4", "5", "6", "7", "8", "9">>

\* str(n) of a non-negative int
RECURSIVE str(_)
str(n) ==
    IF n < Len(Digits) THEN Digits[n + 1]
    ELSE str(n \div Len(Digits)) \o Digits[(n % Len(Digits)) + 1]

\* sep.join(lines)
RECURSIVE join(_, _)
join(sep, lines) ==
    IF lines = <<>> THEN ""
    ELSE IF Len(lines) = 1 THEN Head(lines)
    ELSE Head(lines) \o sep \o join(sep, Tail(lines))

\* requests.utils.quote on the characters the model uses: letters and digits
\* are kept, the others are percent-encoded
QuoteChar(c) ==
    CASE c = " " -> "%20" [] c = ":" -> "%3A" [] c = "[" -> "%5B"
      [] c = "]" -> "%5D" [] c = "*" -> "%2A" [] c = "<" -> "%3C"
      [] c = ">" -> "%3E" [] c = "+" -> "%2B" [] c = "," -> "%2C"
      [] OTHER -> c

RECURSIVE quote(_)
quote(s) ==
    IF s = "" THEN ""
    ELSE QuoteChar(SubSeq(s, 1, 1)) \o quote(SubSeq(s, 2, Len(s)))

ala_base_url == "https://biocache.ala.org.au/ws/occurrences"

species_base_url == "https://api.ala.org.au/species"

\* a JSON string and a JSON object, as the species API may send either
JStr(s) == [str |-> s]

JObj(d) == [obj |-> d]

IsStr(v) == DOMAIN v = {"str"}

\* an exception with its message
Raises(type, message) == [raises |-> type, message |-> message]

IsRaise(v) == "raises" \in DOMAIN v

SpeciesSearchParams(name) ==
    [name |-> name, include_children |-> "false", include_synonyms |-> "false"]

\* OccurrenceSearchParams(scientificname=..., limit=...): offset keeps its
\* default and every other field is None
OccurrenceSearchParams(scientificname, limit) ==
    [scientificname |-> scientificname, limit |-> limit, offset |-> 0]

\* build_api_url for parameters that carry scientificname, limit and offset
build_api_url(params) ==
    ala_base_url \o "/search?q=" \o quote(params.scientificname)
        \o "&limit=" \o str(params.limit) \o "&offset=" \o str(params.offset)

build_species_url(params) ==
    species_base_url \o "/" \o quote(params.name)
        \o "?includeChildren=" \o params.include_children
        \o "&includeSynonyms=" \o params.include_synonyms

\* format_species_results: the SpeciesResponse, or the validation error of a
\* response whose commonNames are not all strings.  The modelled responses
\* carry no classification, images or dataResources.
format_species_results(raw_response, query_url) ==
    LET common_names == get(raw_response, "commonNames", <<>>)
    IN  IF \E k \in DOMAIN common_names : ~IsStr(common_names[k])
        THEN Raises("ValidationError", "common_names: Input should be a valid string")
        ELSE [lsid |-> DictGet(raw_response, "guid"),
              scientific_name |-> DictGet(raw_response, "scientificName"),
              common_names |-> [k \in DOMAIN common_names |-> common_names[k].str],
              conservation_status |-> DictGet(raw_response, "conservationStatus"),
              query_url |-> query_url]

create_species_summary(response) ==
    join("\n",
         <<"# Species Profile: "
               \o (IF Truthy(response.scientific_name)
                   THEN response.scientific_name ELSE "Unknown"),
           "**LSID:** "
               \o (IF Truthy(response.lsid) THEN response.lsid ELSE "Not available"),
           "**Common Names:** "
               \o (IF response.common_names # <<>>
                   THEN join(", ", response.common_names) ELSE "None recorded")>>
         \o (IF Truthy(response.conservation_status)
             THEN <<"**Conservation Status:** " \o response.conservation_status>>
             ELSE <<>>)
         \o <<"\n*Query URL:* " \o response.query_url>>)

FallbackNote ==
    "Note: This information was retrieved from occurrence records as the species API requires authentication."

\* _fallback_species_search after execute_search answered raw_response (or
\* raised): the string it returns
_fallback_species_search(species_name, raw_response) ==
    LET api_url == build_api_url(OccurrenceSearchParams(species_name, 10))
    IN  IF IsRaise(raw_response)
        THEN "Error in fallback species search: " \o raw_response.message
        ELSE IF get(raw_response, "totalRecords", 0) = 0
        THEN "No information found for '" \o species_name
                 \o "' in the Atlas of Living Australia."
        ELSE IF get(raw_response, "occurrences", <<>>) # <<>>
        THEN LET first_occ == raw_response.occurrences[1]
             IN  join("\n",
                      <<"Species Information: " \o species_name,
                        "Scientific Name: " \o get(first_occ, "scientificName", "Not available"),
                        "Common Name: " \o get(first_occ, "vernacularName", "Not available"),
                        "Kingdom: " \o get(first_occ, "kingdom", "Not available"),
                        "Phylum: " \o get(first_occ, "phylum", "Not available"),
                        "Class: " \o get(first_occ, "class", "Not available"),
                        "Order:" \o get(first_occ, "order", "Not available"),
                        "Family: " \o get(first_occ, "family", "Not available"),
                        "Genus:" \o get(first_occ, "genus", "Not available"),
                        "",
                        "Total Records Found:" \o str(get(raw_response, "totalRecords", 0)),
                        "",
                        FallbackNote,
                        "Query URL: " \o api_url>>)
        ELSE "Found " \o str(get(raw_response, "totalRecords", 0))
                 \o " records but couldn't extract species details."

\* what a search_species call leaves: the value returned, whether an
\* exception left the method, and the calls made to each API
SearchOutcome(result, raised, species_calls, occurrence_calls) ==
    [result |-> result, raised |-> raised,
     execute_species_search |-> species_calls,
     execute_search |-> occurrence_calls]

search_species_no_fallback(species_params, species_api, occurrence_api) ==
    IF IsRaise(species_params)
    THEN SearchOutcome("Error processing species query: " \o species_params.message,
                       FALSE, 0, 0)
    ELSE IF IsRaise(species_api)
    THEN SearchOutcome("Error processing species query: " \o species_api.message,
                       FALSE, 1, 0)
    ELSE LET formatted == format_species_results(species_api,
                                                 build_species_url(species_params))
         IN  IF IsRaise(formatted)
             THEN SearchOutcome("Error processing species query: " \o formatted.message,
                                FALSE, 1, 0)
             ELSE SearchOutcome(create_species_summary(formatted), FALSE, 1, 0)

\* search_species(user_query), given what extract_species_parameters,
\* execute_species_search and execute_search answer (each a value or an
\* exception)
search_species(species_params, species_api, occurrence_api) ==
    IF IsRaise(species_params)
    THEN SearchOutcome("Error processing species query: " \o species_params.message,
                       FALSE, 0, 0)
    ELSE IF IsRaise(species_api)
    THEN SearchOutcome(_fallback_species_search(species_params.name, occurrence_api),
                       FALSE, 1, 1)
    ELSE LET formatted == format_species_results(species_api,
                                                 build_species_url(species_params))
         IN  IF IsRaise(formatted)
             THEN SearchOutcome(_fallback_species_search(species_params.name,
                                                         occurrence_api),
                                FALSE, 1, 1)
             ELSE SearchOutcome(create_species_summary(formatted), FALSE, 1, 0)

SpeciesQueries == {"get me info on the Barramundi",
                   "give me a profile for Phascolarctos cinereus",
                   "tell me about the koala"}

SpeciesNames == {"Barramundi", "Phascolarctos cinereus", "koala"}

\* what extract_species_parameters may answer
SpeciesParameters ==
    {SpeciesSearchParams(name) : name \in SpeciesNames}
    \cup {Raises("ValueError",
                 "Failed to extract species parameters from query: timeout")}

\* what execute_species_search may answer
SpeciesApiAnswers ==
    {[guid |-> LSID_K, scientificName |-> "Phascolarctos cinereus",
      commonNames |-> <<JStr("Koala")>>, conservationStatus |-> "Vulnerable"],
     [guid |-> LSID_K, scientificName |-> "Phascolarctos cinereus"],
     PyNone,
     [guid |-> LSID_K, scientificName |-> "Phascolarctos cinereus",
      commonNames |-> <<JObj("Koala")>>],
     Raises("ConnectionError",
            "Failed to connect to ALA Species API: ALA Species API error 401: Unauthorized")}

\* what execute_search may answer
OccurrenceApiAnswers ==
    {[totalRecords |-> 1,
      occurrences |-> <<[scientificName |-> "Lates calcarifer", family |-> "Latidae"]>>],
     [totalRecords |-> 2,
      occurrences |-> <<[scientificName |-> "Phascolarctos cinereus",
                         vernacularName |-> "Koala", kingdom |-> "Animalia"],
                        [scientificName |-> "Phascolarctos cinereus"]>>],
     [totalRecords |-> 0, occurrences |-> <<>>],
     PyNone,
     [totalRecords |-> 2, occurrences |-> <<>>],
     Raises("ConnectionError", "Failed to connect to ALA API: timed out")}

\* -------------------------------------------------------------------------
\* The year filter of the occurrence URLs (ala_logic.py)
\* -------------------------------------------------------------------------

\* int(s) of a string of decimal digits
DigitValue(c) == CHOOSE d \in 0..(Len(Digits) - 1) : Digits[d + 1] = c

RECURSIVE int(_)
int(s) ==
    IF Len(s) = 1 THEN DigitValue(s)
    ELSE int(SubSeq(s, 1, Len(s) - 1)) * Len(Digits) + DigitValue(SubSeq(s, Len(s), Len(s)))

\* str.isdigit()
isdigit(s) ==
    /\ s # ""
    /\ \A k \in 1..Len(s) : \E d \in 1..Len(Digits) : Digits[d] = SubSeq(s, k, k)

endswith(s, suffix) ==
    Len(s) >= Len(suffix) /\ SubSeq(s, Len(s) - Len(suffix) + 1, Len(s)) = suffix

\* value.split(",") followed by strip() of every part (the modelled values
\* carry no blanks)
RECURSIVE split(_, _)
split(s, sep) ==
    IF ~Contains(s, sep) THEN <<s>>
    ELSE LET k == CHOOSE n \in 1..Len(s) :
                      /\ SubSeq(s, n, n) = sep
                      /\ \A m \in 1..(n - 1) : SubSeq(s, m, m) # sep
         IN  <<SubSeq(s, 1, k - 1)>> \o split(SubSeq(s, k + 1, Len(s)), sep)

\* urlencode(api_params, doseq=True, quote_via=requests.utils.quote) of the
\* fq entries; the other entries of api_params do not depend on year
urlencode_fq(fq_filters) ==
    join("&", [k \in 1..Len(fq_filters) |-> "fq=" \o quote(fq_filters[k])])

\* the filters of a list of years that is not a pair: one per non-empty year
RECURSIVE YearTerms(_)
YearTerms(years) ==
    IF years = <<>> THEN <<>>
    ELSE (IF Head(years) # "" THEN <<"year:" \o Head(years)>> ELSE <<>>)
             \o YearTerms(Tail(years))

\* build_occurrence_url for parameters that carry year: the fq part of the
\* query string
build_occurrence_url(params) ==
    LET value == params.year
        years == split(value, ",")
        fq_filters ==
            IF Contains(value, ",")
            THEN IF Len(years) = 2
                 THEN <<"year:[" \o years[1] \o " TO " \o years[2] \o "]">>
                 ELSE YearTerms(years)
            ELSE IF endswith(value, "+")
            THEN <<"year:[" \o str(int(SubSeq(value, 1, Len(value) - 1)) + 1) \o " TO *]">>
            ELSE IF startswith(value, "<")
            THEN <<"year:[* TO " \o str(int(SubSeq(value, 2, Len(value))) - 1) \o "]">>
            ELSE IF startswith(value, ">")
            THEN <<"year:[" \o str(int(SubSeq(value, 2, Len(value))) + 1) \o " TO *]">>
            ELSE <<"year:" \o value>>
    IN  urlencode_fq(fq_filters)

\* build_occurrence_facets_url for parameters that carry year: the fq part of
\* the query string
build_occurrence_facets_url(params) ==
    LET value == params.year
        years == split(value, ",")
        fq_filters ==
            IF Contains(value, ",")
            THEN IF Len(years) = 2
                 THEN <<"year:[" \o years[1] \o " TO " \o years[2] \o "]">>
                 ELSE YearTerms(years)
            ELSE IF endswith(value, "+")
            THEN <<"year:[" \o SubSeq(value, 1, Len(value) - 1) \o " TO *]">>
            ELSE <<"year:" \o value>>
    IN  urlencode_fq(fq_filters)

MinYear == 2010

MaxYear == 2023

\* the years the extractor names in a year expression
ExpressionYears == (MinYear + 1)..(MaxYear - 1)

\* the year expressions the extraction prompt tells the model to emit
YearExpressions ==
    {str(y) : y \in ExpressionYears}
    \cup {str(y) \o "+" : y \in ExpressionYears}
    \cup {"<" \o str(y) : y \in ExpressionYears}
    \cup {str(a) \o "," \o str(b) : a \in ExpressionYears, b \in ExpressionYears}

\* -------------------------------------------------------------------------
\* State
\* -------------------------------------------------------------------------

VARIABLES
    cache,          \* the Redis store: key -> cached dict
    last,           \* the most recent resolve_species_name call: its argument, the
                    \* cache it met, the answers of the external calls it made
                    \* and its result
    failed,         \* identifiers whose resolution completed with no accepted match
    stored,         \* records cached by a successful name-matching resolution
    pc,             \* where the request handler (run) is
    error,          \* the exception that escaped run, if any
    extracted,      \* the ALASearchResponse (mutated in place by the resolver)
    extracted0,     \* the ALASearchResponse as the extractor returned it
    planning,       \* what happened while the plan was created
    plan,           \* plan.tools_planned
    res,            \* whether the resolver ran and the external calls it made
    i,              \* index of the next entry in the current phase's list
    executed_tools, \* names of the tools executed so far
    invoked,        \* the adapter invocations made, in order
    in_flight,      \* the tools whose adapter was called and has not returned
    replies,        \* what has been replied to the user, in order
    original_query, \* the query text given to the extractor as validation context
    attempts,       \* the model outputs the extractor's validation has rejected
    search,         \* the search_species call of the stand-alone workflow
    conc,           \* the requests that resolve one identifier concurrently
    urls            \* the year expression given to the URL builders, and their URLs

resolverVars == <<cache, last, failed, stored>>

requestVars == <<pc, error, extracted, extracted0, planning, plan, res, i,
                 executed_tools, invoked, in_flight, replies>>

extractorVars == <<original_query, attempts>>

workflowVars == <<search, conc, urls>>

vars == <<cache, last, failed, stored, pc, error, extracted, extracted0,
          planning, plan, res, i, executed_tools, invoked, in_flight, replies,
          original_query, attempts, search, conc, urls>>

EmptyCache == [k \in {} |-> PyNone]

NoCall == [name |-> None, ret |-> PyNone, raised |-> FALSE, ext |-> 0,
           wasFailed |-> FALSE, aliasOf |-> {},
           before |-> EmptyCache, sci_data |-> PyNone, vern_data |-> PyNone,
           redis |-> "up"]

\* the names under which a record is known
Aliases(r) ==
    {v \in {DictGet(r, "scientificName"), DictGet(r, "vernacularName"),
            DictGet(r, "taxonConceptID")} : Truthy(v)}

NoResponse == ALASearchResponse(PyNone, FALSE, NoReason)

NoResolution == [ran |-> FALSE, called |-> FALSE, ext |-> 0]

InitRequest(at) ==
    /\ pc = at
    /\ error = None
    /\ extracted = NoResponse
    /\ extracted0 = NoResponse
    /\ planning = None
    /\ plan = <<>>
    /\ res = NoResolution
    /\ i = 1
    /\ executed_tools = <<>>
    /\ invoked = <<>>
    /\ in_flight = {}
    /\ replies = <<>>

InitCache ==
    /\ cache = EmptyCache
    /\ last = NoCall
    /\ failed = {}
    /\ stored = {}

\* no query text is under extraction
NoQuery == original_query = None /\ attempts = <<>>

NoSearch == [user_query |-> None, called |-> FALSE, species_params |-> PyNone,
             species_api |-> PyNone, occurrence_api |-> PyNone,
             formatted |-> FALSE,
             outcome |-> SearchOutcome(None, FALSE, 0, 0)]

NoTasks == [name |-> None, sci_data |-> PyNone, vern_data |-> PyNone,
            before |-> EmptyCache, task |-> <<>>]

NoUrls == [year |-> None, built |-> FALSE, occurrence |-> None, facets |-> None]

\* no stand-alone workflow is running, no requests resolve concurrently and
\* no URL is being built
NoWorkflow == search = NoSearch /\ conc = NoTasks /\ urls = NoUrls

\* the resolver on its own: no request is being handled
InitResolver == InitCache /\ InitRequest("idle") /\ NoQuery /\ NoWorkflow

\* what a resolve_species_name(name) call with outcome o leaves on record
LastCall(name, o, sci_data, vern_data) ==
    [name |-> name, ret |-> o.ret, raised |-> o.raised,
     ext |-> o.ext, wasFailed |-> name \in failed,
     aliasOf |-> {r \in stored : name \in Aliases(r)},
     before |-> cache,
     sci_data |-> IF o.ext >= 1 THEN sci_data ELSE PyNone,
     vern_data |-> IF o.ext >= 2 THEN vern_data ELSE PyNone,
     redis |-> "up"]

FailedAfter(name, o) ==
    IF ~o.raised /\ o.ext = 2 /\ ~TruthyDict(o.ret)
    THEN failed \cup {name} ELSE failed

StoredAfter(o) ==
    IF o.ext = 2 /\ TruthyDict(o.ret) THEN stored \cup {o.ret} ELSE stored

\* one complete call of resolve_species_name(name)
Resolve ==
    \E name \in Identifiers :
    \E sci_data \in search_scientific_name(name) :
    \E vern_data \in search_vernacular_name(name) :
    \E o \in {resolve_species_name(cache, name, sci_data, vern_data)} :
        /\ cache' = o.cache
        /\ last' = LastCall(name, o, sci_data, vern_data)
        /\ failed' = FailedAfter(name, o)
        /\ stored' = StoredAfter(o)
        /\ pc = "idle"
        /\ UNCHANGED requestVars
        /\ UNCHANGED extractorVars
        /\ UNCHANGED workflowVars
    /\ UNCHANGED workflowVars

NextResolver == Resolve

SpecResolver == InitResolver /\ [][NextResolver]_vars

\* the resolver with a store that may be unavailable: redis.get raises on the
\* first lookup ("down"), or the lookups answer and redis.set raises on the
\* first write ("set_fails").  Neither _redis_get nor _redis_set nor their
\* callers handle the exception, so it leaves resolve_species_name.
RedisEvents == {"up", "down", "set_fails"}

resolve_species_name_on(redis, c, name, sci_data, vern_data) ==
    IF redis = "down" THEN Outcome(PyNone, TRUE, c, 0)
    ELSE LET o == resolve_species_name(c, name, sci_data, vern_data)
         IN  IF redis = "set_fails" /\ o.ext = 2 /\ ~o.raised
             THEN Outcome(PyNone, TRUE, c, 2)
             ELSE o

\* the identifiers resolved while the store may fail
FaultIdentifiers == {"koala", "Phascolarctos cinereus", "xyzzy", LSID_K}

ResolveOnStore ==
    \E redis \in RedisEvents :
    \E name \in FaultIdentifiers :
    \E sci_data \in search_scientific_name(name) :
    \E vern_data \in search_vernacular_name(name) :
    \E o \in {resolve_species_name_on(redis, cache, name, sci_data, vern_data)} :
        /\ cache' = o.cache
        /\ last' = [LastCall(name, o, sci_data, vern_data) EXCEPT !.redis = redis]
        /\ failed' = FailedAfter(name, o)
        /\ stored' = StoredAfter(o)
        /\ pc = "idle"
        /\ UNCHANGED requestVars
        /\ UNCHANGED extractorVars
        /\ UNCHANGED workflowVars
    /\ UNCHANGED workflowVars

NextStoreFaults == ResolveOnStore

SpecStoreFaults == InitResolver /\ [][NextStoreFaults]_vars

\* -------------------------------------------------------------------------
\* The parameter extractor: the model call with its validated, retried output
\* -------------------------------------------------------------------------

temporal_keywords == {"before", "after", "since", "between", "during"}

temporal_params == {"year", "startdate", "enddate"}

\* ALASearchResponse.validate_params: TRUE when v is accepted, FALSE when the
\* validator raises ValueError
validate_params(v, query) ==
    LET has_temporal == \E keyword \in temporal_keywords : Contains(lower(query), keyword)
        has_temporal_param == \E param \in temporal_params : param \in DOMAIN v
    IN  has_temporal => has_temporal_param

\* the number of attempts the client makes before it gives up
max_retries == 3

Requests == {"koala sightings in NSW",
             "koala sightings in NSW after 2020",
             "Koala records BEFORE 2018",
             "koala records post 2020"}

\* what the model may answer: a response object, or a failure of the call
ModelOutputs ==
    ExtractedResponses
    \cup {ALASearchResponse([q |-> "koala", year |-> "2020+"], FALSE, NoReason),
          ALASearchResponse([q |-> "koala", startdate |-> "2020-01-01"], FALSE, NoReason)}

ModelError == [model_error |-> TRUE]

InitExtractor ==
    /\ InitCache
    /\ InitRequest("extract")
    /\ original_query \in Requests
    /\ attempts = <<>>
    /\ NoWorkflow

\* extract_params_from_query, one attempt of the client: the model call
\* fails, or its output is accepted and returned, or it is rejected and the
\* client retries until max_retries attempts were made; every failure is
\* raised as ValueError
ExtractAttempt ==
    /\ pc = "extract"
    /\ original_query # None
    /\ \E out \in ModelOutputs \cup {ModelError} :
         IF out = ModelError
         THEN /\ pc' = "raised"
              /\ error' = "ExtractionError"
              /\ UNCHANGED <<extracted, extracted0, attempts>>
         ELSE IF validate_params(out.params, original_query)
         THEN /\ pc' = "extracted"
              /\ extracted' = out
              /\ extracted0' = out
              /\ UNCHANGED <<error, attempts>>
         ELSE /\ attempts' = Append(attempts, out)
              /\ IF Len(attempts) + 1 >= max_retries
                 THEN pc' = "raised" /\ error' = "ExtractionError"
                 ELSE UNCHANGED <<pc, error>>
              /\ UNCHANGED <<extracted, extracted0>>
    /\ UNCHANGED <<planning, plan, res, i, executed_tools, invoked, in_flight, replies,
                   original_query>>
    /\ UNCHANGED resolverVars
    /\ UNCHANGED workflowVars

NextExtractor == ExtractAttempt

SpecExtractor == InitExtractor /\ [][NextExtractor]_vars

\* -------------------------------------------------------------------------
\* The tool adapters on their own: an adapter applied to a parameter bag
\* -------------------------------------------------------------------------

MaxInvocations == 1

ParamBags ==
    ExtractedParams
    \cup {[id |-> LSID_K],
          [common_name |-> "Koala"],
          [q |-> "", lsid |-> ""],
          [q |-> "koala", lsid |-> LSID_K, id |-> LSID_K,
           scientific_name |-> "Phascolarctos cinereus"]}

InitAdapters ==
    /\ InitCache
    /\ NoQuery
    /\ NoWorkflow
    /\ pc = "tools"
    /\ error = None
    /\ \E params \in ParamBags :
         /\ extracted = ALASearchResponse(params, FALSE, NoReason)
         /\ extracted0 = ALASearchResponse(params, FALSE, NoReason)
    /\ planning = None
    /\ plan = <<>>
    /\ res = NoResolution
    /\ i = 1
    /\ executed_tools = <<>>
    /\ invoked = <<>>
    /\ in_flight = {}
    /\ replies = <<>>

\* tool_fn(resolved.params) for one registered tool
InvokeAdapter ==
    /\ pc = "tools"
    /\ Len(invoked) < MaxInvocations
    /\ \E tool_name \in RegisteredTools :
       \E api \in InvocationEvents(tool_name) :
         invoked' = Append(invoked, Invocation(tool_name, "must_call", extracted.params, api))
    /\ UNCHANGED <<pc, error, extracted, extracted0, planning, plan, res, i,
                   executed_tools, in_flight, replies>>
    /\ UNCHANGED resolverVars
    /\ UNCHANGED extractorVars
    /\ UNCHANGED workflowVars

NextAdapters == InvokeAdapter

SpecAdapters == InitAdapters /\ [][NextAdapters]_vars

\* -------------------------------------------------------------------------
\* The species search workflow on its own: one search_species call
\* -------------------------------------------------------------------------

InitSpeciesSearch ==
    /\ InitCache
    /\ InitRequest("idle")
    /\ NoQuery
    /\ \E user_query \in SpeciesQueries :
         search = [NoSearch EXCEPT !.user_query = user_query]
    /\ conc = NoTasks
    /\ urls = NoUrls

\* search_species(user_query); the answers recorded are those of the calls
\* the method made
SearchSpecies ==
    /\ ~search.called
    /\ search.user_query # None
    /\ \E species_params \in SpeciesParameters :
       \E species_api \in SpeciesApiAnswers :
       \E occurrence_api \in OccurrenceApiAnswers :
       \E o \in {search_species(species_params, species_api, occurrence_api)} :
         search' = [user_query |-> search.user_query,
                    called |-> TRUE,
                    species_params |-> species_params,
                    species_api |-> IF o.execute_species_search > 0
                                    THEN species_api ELSE PyNone,
                    occurrence_api |-> IF o.execute_search > 0
                                       THEN occurrence_api ELSE PyNone,
                    formatted |-> o.execute_species_search > 0
                                    /\ ~IsRaise(species_api)
                                    /\ ~IsRaise(format_species_results(species_api, "")),
                    outcome |-> o]
    /\ UNCHANGED <<conc, urls>>
    /\ UNCHANGED requestVars
    /\ UNCHANGED resolverVars
    /\ UNCHANGED extractorVars

NextSpeciesSearch == SearchSpecies

SpecSpeciesSearch == InitSpeciesSearch /\ [][NextSpeciesSearch]_vars

\* -------------------------------------------------------------------------
\* Two requests that resolve the same identifier at the same time
\* -------------------------------------------------------------------------

InitConcurrent ==
    /\ InitRequest("idle")
    /\ NoQuery
    /\ search = NoSearch
    /\ urls = NoUrls
    /\ last = NoCall
    /\ failed = {}
    /\ stored = {}
    /\ \E name \in ConcurrentIdentifiers :
       \E sci_data \in search_scientific_name(name) :
       \E vern_data \in search_vernacular_name(name) :
       \E c \in StartCaches :
         /\ ~TruthyDict(_resolve_via_redis_only(c, name))
         /\ cache = c
         /\ conc = [name |-> name, sci_data |-> sci_data, vern_data |-> vern_data,
                    before |-> c, task |-> [t \in Tasks |-> TaskStart(name)]]

\* one task resumes and runs to its next await or to its return
ResumeTask ==
    /\ conc.name # None
    /\ \E t \in Tasks :
         /\ conc.task[t].at # "done"
         /\ \E r \in {TaskStep(conc.task[t], cache, conc.name,
                               conc.sci_data, conc.vern_data)} :
              /\ cache' = r.cache
              /\ conc' = [conc EXCEPT !.task[t] = r.task]
    /\ UNCHANGED <<last, failed, stored, search, urls>>
    /\ UNCHANGED requestVars
    /\ UNCHANGED extractorVars

NextConcurrent == ResumeTask

SpecConcurrent == InitConcurrent /\ [][NextConcurrent]_vars

\* -------------------------------------------------------------------------
\* resolve_unresolved_params on its own: one call on a parameter bag
\* -------------------------------------------------------------------------

\* the parameter bags the resolver is called with
ResolverParamBags ==
    ExtractedParams
    \cup {[q |-> "koala", id |-> "koala"],
          [q |-> "koala", lsid |-> ""],
          [q |-> "", id |-> LSID_A],
          [id |-> LSID_A],
          [common_name |-> "Koala", family |-> "Phascolarctidae"],
          [scientific_name |-> "Lipurus cinereus", q |-> "koala", rank |-> "genus"],
          [common_name |-> "koala", rank |-> "subspecies"],
          [q |-> "Acacia", kingdom |-> "Plantae", lsid |-> LSID_T,
           id |-> LSID_K],
          [q |-> "xyzzy", scientific_name |-> "Acacia"]}

InitResolveParams ==
    /\ NoQuery
    /\ NoWorkflow
    /\ \E c \in StartCaches : cache = c
    /\ last = NoCall
    /\ failed = {}
    /\ stored = {}
    /\ pc = "resolve_params"
    /\ error = None
    /\ \E params \in ResolverParamBags :
       \E clarification_needed \in BOOLEAN :
         /\ extracted = ALASearchResponse(params, clarification_needed, NoReason)
         /\ extracted0 = extracted
    /\ planning = None
    /\ plan = <<>>
    /\ res = NoResolution
    /\ i = 1
    /\ executed_tools = <<>>
    /\ invoked = <<>>
    /\ in_flight = {}
    /\ replies = <<>>

\* resolve_unresolved_params(extracted)
ResolveParams ==
    /\ pc = "resolve_params"
    /\ LET ident == _pick_species_identifier(extracted.params)
       IN  \E sci_data \in IF ident \in Identifiers
                           THEN search_scientific_name(ident) ELSE {ConnErr} :
           \E vern_data \in IF ident \in Identifiers
                            THEN search_vernacular_name(ident) ELSE {ConnErr} :
           \E r \in {resolve_unresolved_params(extracted, cache, sci_data, vern_data)} :
           \E o \in {resolve_species_name(cache, ident, sci_data, vern_data)} :
               /\ cache' = r.cache
               /\ res' = [ran |-> TRUE, called |-> r.called, ext |-> r.ext]
               /\ extracted' = r.extracted
               /\ IF r.called
                  THEN /\ last' = LastCall(ident, o, sci_data, vern_data)
                       /\ failed' = FailedAfter(ident, o)
                       /\ stored' = StoredAfter(o)
                  ELSE UNCHANGED <<last, failed, stored>>
               /\ IF r.raised
                  THEN pc' = "raised" /\ error' = "ConnectionError"
                  ELSE pc' = "resolved" /\ UNCHANGED error
    /\ UNCHANGED <<extracted0, planning, plan, i, executed_tools, invoked, in_flight,
                   replies>>
    /\ UNCHANGED extractorVars
    /\ UNCHANGED workflowVars

NextResolveParams == ResolveParams

SpecResolveParams == InitResolveParams /\ [][NextResolveParams]_vars

\* -------------------------------------------------------------------------
\* The URL builders on their own: both applied to one year expression
\* -------------------------------------------------------------------------

InitUrls ==
    /\ InitCache
    /\ InitRequest("idle")
    /\ NoQuery
    /\ search = NoSearch
    /\ conc = NoTasks
    /\ \E year \in YearExpressions : urls = [NoUrls EXCEPT !.year = year]

BuildUrls ==
    /\ urls.year # None
    /\ ~urls.built
    /\ urls' = [year |-> urls.year, built |-> TRUE,
                occurrence |-> build_occurrence_url([year |-> urls.year]),
                facets |-> build_occurrence_facets_url([year |-> urls.year])]
    /\ UNCHANGED <<search, conc>>
    /\ UNCHANGED requestVars
    /\ UNCHANGED resolverVars
    /\ UNCHANGED extractorVars

NextUrls == BuildUrls

SpecUrls == InitUrls /\ [][NextUrls]_vars

\* -------------------------------------------------------------------------
\* The request handler: UnifiedALAReActAgent.run
\* -------------------------------------------------------------------------

Reply(kind, tool_name) == [kind |-> kind, tool_name |-> tool_name]

\* the API-key check at the top of run
CheckApiKey ==
    /\ pc = "start"
    /\ \E api_key \in BOOLEAN :
         IF api_key
         THEN pc' = "extract" /\ UNCHANGED replies
         ELSE pc' = "no_api_key" /\ replies' = Append(replies, Reply("no_api_key", None))
    /\ UNCHANGED <<error, extracted, extracted0, planning, plan, res, i,
                   executed_tools, invoked, in_flight>>
    /\ UNCHANGED resolverVars
    /\ UNCHANGED extractorVars
    /\ UNCHANGED workflowVars

\* Step 1: extract_parameters; a failure of the extractor raises ValueError
ExtractParameters ==
    /\ pc = "extract"
    /\ \/ \E r \in ExtractedResponses :
            /\ extracted' = r
            /\ extracted0' = r
            /\ pc' = "plan"
            /\ UNCHANGED error
       \/ /\ pc' = "raised"
          /\ error' = "ExtractionError"
          /\ UNCHANGED <<extracted, extracted0>>
    /\ UNCHANGED <<planning, plan, res, i, executed_tools, invoked, in_flight,
                   replies>>
    /\ UNCHANGED resolverVars
    /\ UNCHANGED extractorVars
    /\ UNCHANGED workflowVars

\* Step 2: create_research_plan
CreatePlan ==
    /\ pc = "plan"
    /\ \E event \in PlannerEvents :
       \E llm_plan \in IF event = "ok" THEN Plans ELSE {<<>>} :
         LET r == create_research_plan(event, llm_plan)
         IN  /\ planning' = event
             /\ plan' = r.plan
             /\ error' = r.error
             /\ pc' = IF r.raised THEN "raised" ELSE "resolve"
    /\ UNCHANGED <<extracted, extracted0, res, i, executed_tools, invoked, in_flight,
                   replies>>
    /\ UNCHANGED resolverVars
    /\ UNCHANGED extractorVars
    /\ UNCHANGED workflowVars

\* Step 3: conditional LSID resolution
ResolveSpecies ==
    /\ pc = "resolve"
    /\ IF requires_lsid(plan)
       THEN LET ident == _pick_species_identifier(extracted.params)
            IN  \E sci_data \in IF ident \in Identifiers
                                THEN search_scientific_name(ident) ELSE {ConnErr} :
                \E vern_data \in IF ident \in Identifiers
                                 THEN search_vernacular_name(ident) ELSE {ConnErr} :
                \E r \in {resolve_unresolved_params(extracted, cache, sci_data, vern_data)} :
                \E o \in {resolve_species_name(cache, ident, sci_data, vern_data)} :
                    /\ cache' = r.cache
                    /\ res' = [ran |-> TRUE, called |-> r.called, ext |-> r.ext]
                    /\ extracted' = r.extracted
                    /\ IF r.called
                       THEN /\ last' = LastCall(ident, o, sci_data, vern_data)
                            /\ failed' = FailedAfter(ident, o)
                            /\ stored' = StoredAfter(o)
                       ELSE UNCHANGED <<last, failed, stored>>
                    /\ IF r.raised
                       THEN /\ pc' = "raised"
                            /\ error' = "ConnectionError"
                            /\ UNCHANGED replies
                       ELSE IF r.extracted.clarification_needed
                       THEN /\ pc' = "clarification"
                            /\ replies' = Append(replies,
                                                 Reply(r.extracted.clarification_reason.kind,
                                                       r.extracted.clarification_reason.identifier))
                            /\ UNCHANGED error
                       ELSE /\ pc' = "phase1"
                            /\ UNCHANGED <<error, replies>>
       ELSE /\ pc' = "phase1"
            /\ UNCHANGED <<cache, res, extracted, error, replies, last, failed, stored>>
    /\ i' = 1
    /\ UNCHANGED <<extracted0, planning, plan, executed_tools, invoked, in_flight>>
    /\ UNCHANGED extractorVars
    /\ UNCHANGED workflowVars

\* PHASE 1: one iteration of the loop over must_call_tools up to the call of
\* the adapter (await tool_fn(...)), or the end of the loop
Phase1Step ==
    /\ pc = "phase1"
    /\ in_flight = {}
    /\ LET todo == must_call_tools(plan)
       IN  IF i > Len(todo)
           THEN /\ pc' = "phase2"
                /\ i' = 1
                /\ UNCHANGED <<in_flight, replies>>
           ELSE LET tool_name == todo[i].tool_name
                IN  IF SkipMustCall(tool_name, executed_tools)
                    THEN /\ i' = i + 1
                         /\ UNCHANGED <<pc, in_flight, replies>>
                    ELSE IF tool_name \notin RegisteredTools
                    THEN /\ pc' = "aborted"
                         /\ replies' = Append(replies, Reply("not_implemented", tool_name))
                         /\ UNCHANGED <<i, in_flight>>
                    ELSE /\ in_flight' = in_flight \cup {tool_name}
                         /\ UNCHANGED <<pc, i, replies>>
    /\ UNCHANGED <<error, extracted, extracted0, planning, plan, res,
                   executed_tools, invoked>>
    /\ UNCHANGED resolverVars
    /\ UNCHANGED extractorVars
    /\ UNCHANGED workflowVars

\* PHASE 1: the awaited adapter returns or raises, and its result is checked
Phase1Return ==
    /\ pc = "phase1"
    /\ \E tool_name \in in_flight :
       \E api \in InvocationEvents(tool_name) :
         LET r == Invocation(tool_name, "must_call", extracted.params, api)
             said == IF r.reply = None THEN replies
                     ELSE Append(replies, Reply(r.reply, tool_name))
         IN  /\ in_flight' = in_flight \ {tool_name}
             /\ invoked' = Append(invoked, r)
             /\ executed_tools' = IF r.raised THEN executed_tools
                                  ELSE Append(executed_tools, tool_name)
             /\ IF MustCallSucceeded(r)
                THEN /\ i' = i + 1
                     /\ replies' = said
                     /\ UNCHANGED pc
                ELSE /\ pc' = "aborted"
                     /\ replies' = Append(said, Reply("required_failed", tool_name))
                     /\ UNCHANGED i
    /\ UNCHANGED <<error, extracted, extracted0, planning, plan, res>>
    /\ UNCHANGED resolverVars
    /\ UNCHANGED extractorVars
    /\ UNCHANGED workflowVars

\* PHASE 2: one iteration of the loop over optional_tools up to the call of
\* the adapter, or the end of the loop (PHASE 3)
Phase2Step ==
    /\ pc = "phase2"
    /\ in_flight = {}
    /\ LET todo == optional_tools(plan)
       IN  IF i > Len(todo)
           THEN /\ pc' = "completed"
                /\ UNCHANGED <<i, in_flight>>
           ELSE LET tool_name == todo[i].tool_name
                IN  IF SkipOptional(tool_name, executed_tools)
                    THEN /\ i' = i + 1
                         /\ UNCHANGED <<pc, in_flight>>
                    ELSE /\ in_flight' = in_flight \cup {tool_name}
                         /\ UNCHANGED <<pc, i>>
    /\ UNCHANGED <<error, extracted, extracted0, planning, plan, res,
                   executed_tools, invoked, replies>>
    /\ UNCHANGED resolverVars
    /\ UNCHANGED extractorVars
    /\ UNCHANGED workflowVars

\* PHASE 2: the awaited adapter returns or raises; a failure is logged and the
\* loop goes on
Phase2Return ==
    /\ pc = "phase2"
    /\ \E tool_name \in in_flight :
       \E api \in InvocationEvents(tool_name) :
         LET r == Invocation(tool_name, "optional", extracted.params, api)
         IN  /\ in_flight' = in_flight \ {tool_name}
             /\ invoked' = Append(invoked, r)
             /\ executed_tools' = IF r.raised THEN executed_tools
                                  ELSE Append(executed_tools, tool_name)
             /\ replies' = IF r.reply = None THEN replies
                           ELSE Append(replies, Reply(r.reply, tool_name))
             /\ i' = i + 1
             /\ UNCHANGED pc
    /\ UNCHANGED <<error, extracted, extracted0, planning, plan, res>>
    /\ UNCHANGED resolverVars
    /\ UNCHANGED extractorVars
    /\ UNCHANGED workflowVars

Init == InitCache /\ InitRequest("start") /\ NoQuery /\ NoWorkflow

Next ==
    \/ CheckApiKey
    \/ ExtractParameters
    \/ CreatePlan
    \/ ResolveSpecies
    \/ Phase1Step
    \/ Phase1Return
    \/ Phase2Step
    \/ Phase2Return

Spec == Init /\ [][Next]_vars

\* -------------------------------------------------------------------------
\* Properties of the resolver
\* -------------------------------------------------------------------------

\* C4: a second resolve_species_name call with an identifier whose resolution
\* failed once returns absent without any external name-matching call.
C4_NegativeCacheShortCircuits ==
    last.wasFailed => (last.ext = 0 /\ ~last.raised /\ last.ret = PyNone)

\* C5: a resolve_species_name call with any alias (scientific name,
\* vernacular name, LSID of any form) of a record r resolved earlier returns r
\* from the cache without any external name-matching call.
C5_AnyAliasHitsCache ==
    \A r \in last.aliasOf : last.ext = 0 /\ ~last.raised /\ last.ret = r

\* the LSID URI pattern
LsidUriPrefixes == {"https://biodiversity.org.au/afd/taxa/",
                    "https://id.biodiversity.org.au/taxon/",
                    "https://biodiversity.org.au/apni/"}

MatchesLsidPattern(v) == \E p \in LsidUriPrefixes : startswith(v, p)

\* C6: for an identifier matching the LSID URI pattern, in every reachable
\* cache state, resolve_species_name issues no external name-matching call
\* and returns a record whose taxonConceptID equals the identifier.
C6_LsidNeverCallsOut ==
    MatchesLsidPattern(last.name) =>
        /\ last.ext = 0
        /\ ~last.raised
        /\ DictGet(last.ret, "taxonConceptID") = last.name

\* an LSID answered with the record cached by an earlier resolution
C6_Witness ==
    /\ last.name = LSID_K
    /\ last.ret \in stored
    /\ last.ext = 0

\* -------------------------------------------------------------------------
\* Properties of the request handler
\* -------------------------------------------------------------------------

\* the two-phase execution ran to its end
CoordinatorDone == pc \in {"completed", "aborted"}

LastReply == replies[Len(replies)]

Unregistered(k) == plan[k].tool_name \notin RegisteredTools

\* C1: once a must-call adapter returns a failed outcome no adapter is invoked
\* any more (that invocation stays the last one), and the request has ended
\* with the failure message replied to the user.
C1_MustCallFailureStopsEverything ==
    \A k \in 1..Len(invoked) :
        (invoked[k].priority = "must_call" /\ ~invoked[k].success) =>
            /\ k = Len(invoked)
            /\ pc = "aborted"
            /\ replies # <<>>
            /\ LastReply = Reply("required_failed", invoked[k].tool_name)

\* the first must-call entry failed while a registered optional entry was
\* still to come
C1_Witness ==
    /\ pc = "aborted"
    /\ Len(plan) = 2
    /\ plan[1].priority = "must_call"
    /\ plan[2].priority = "optional"
    /\ plan[2].tool_name \in RegisteredTools \ {plan[1].tool_name}
    /\ Len(invoked) = 1
    /\ invoked[1].requested
    /\ ~invoked[1].success

\* every must-call entry has an adapter and every must-call invocation
\* returned success
AllMustCallSucceeded ==
    /\ \A k \in 1..Len(plan) : plan[k].priority = "must_call" => ~Unregistered(k)
    /\ \A k \in 1..Len(invoked) : invoked[k].priority = "must_call" => invoked[k].success

\* C2 (as stated): when every must-call adapter returns success, every
\* optional entry's tool is invoked at least once and the request ends as
\* completed.
C2_EveryOptionalEntryInvoked ==
    (CoordinatorDone /\ AllMustCallSucceeded) =>
        /\ pc = "completed"
        /\ \A k \in 1..Len(plan) :
               plan[k].priority = "optional" =>
                   \E j \in 1..Len(invoked) : invoked[j].tool_name = plan[k].tool_name

\* C2 (amended): when every must-call adapter returns success, every optional
\* entry whose tool is in the adapter registry is invoked at least once, also
\* after an optional entry failed, and the request ends as completed.
C2_EveryRegisteredOptionalEntryInvoked ==
    (CoordinatorDone /\ AllMustCallSucceeded) =>
        /\ pc = "completed"
        /\ \A k \in 1..Len(plan) :
               (plan[k].priority = "optional" /\ ~Unregistered(k)) =>
                   \E j \in 1..Len(invoked) : invoked[j].tool_name = plan[k].tool_name

\* an optional adapter failed and the next optional entry ran all the same
C2_Witness ==
    /\ pc = "completed"
    /\ Len(invoked) = 2
    /\ invoked[1].priority = "optional" /\ ~invoked[1].success
    /\ invoked[2].priority = "optional"

\* C3: within one request no adapter is invoked more than once.
C3_NoAdapterInvokedTwice ==
    \A j, k \in 1..Len(invoked) :
        j # k => invoked[j].tool_name # invoked[k].tool_name

\* C7: when the external request of a must-call adapter fails (connection
\* error or timeout) the adapter's outcome is a failure, it is the last
\* invocation and the request is not reported as completed.
C7_ApiFailureFailsMustCall ==
    \A k \in 1..Len(invoked) :
        (/\ invoked[k].priority = "must_call"
         /\ invoked[k].requested
         /\ invoked[k].api \in {"conn_error", "timeout"}) =>
            /\ ~invoked[k].success
            /\ k = Len(invoked)
            /\ pc = "aborted"

RequestEnded == pc \in {"completed", "aborted", "clarification", "raised",
                        "no_api_key"}

\* C8: for the single must-call get_occurrence_taxa_count plan and extracted
\* parameters with a resolvable species name in q and no lsid, the resolver
\* runs and fills lsid, the adapter is invoked exactly once with it and the
\* request completes.
C8_TaxaCountGetsResolvedLsid ==
    (/\ RequestEnded
     /\ error # "ConnectionError"
     /\ plan = <<ToolPlan("get_occurrence_taxa_count", "must_call")>>
     /\ extracted0 = ALASearchResponse([q |-> "koala"], FALSE, NoReason)) =>
        /\ res.ran
        /\ DictGet(extracted.params, "lsid") = LSID_K
        /\ Len(invoked) = 1
        /\ invoked[1].tool_name = "get_occurrence_taxa_count"
        /\ invoked[1].success
        /\ pc = "completed"

\* C9: with an unregistered tool among the must-call entries the coordinator
\* ends aborted with an error replied to the user; only must-call entries
\* standing before the unregistered one were ever invoked.
C9_UnregisteredMustCallAborts ==
    \A u \in 1..Len(plan) :
        (CoordinatorDone /\ plan[u].priority = "must_call" /\ Unregistered(u)) =>
            /\ pc = "aborted"
            /\ replies # <<>>
            /\ LastReply.kind \in {"not_implemented", "required_failed"}
            /\ \A k \in 1..Len(invoked) :
                   /\ invoked[k].priority = "must_call"
                   /\ \E m \in 1..(u - 1) :
                          plan[m] = ToolPlan(invoked[k].tool_name, "must_call")

\* the unregistered entry came first and a registered entry was never run
C9_Witness ==
    /\ pc = "aborted"
    /\ Len(plan) = 2
    /\ Unregistered(1) /\ plan[1].priority = "must_call"
    /\ ~Unregistered(2)
    /\ invoked = <<>>
    /\ replies # <<>>
    /\ LastReply = Reply("not_implemented", plan[1].tool_name)

\* C10: whenever plan creation fails for a reason other than cancellation,
\* create_research_plan returns the fallback plan and does not raise.
C10_PlanningFailureFallsBack ==
    planning \in {"setup_error", "model_error", "schema_invalid", "timeout"} =>
        /\ error # "PlannerSetupError"
        /\ plan = FallbackPlan

\* C11: a task cancellation arriving while the plan is being created is
\* re-raised to the caller of run: the fallback plan is not returned, no
\* species resolution and no tool adapter runs afterwards.
C11_CancellationPropagates ==
    planning = "cancelled" =>
        /\ pc = "raised"
        /\ error = "CancelledError"
        /\ plan # FallbackPlan
        /\ ~res.ran
        /\ invoked = <<>>
        /\ executed_tools = <<>>

\* plan creation was cancelled after a successful extraction
C11_Witness ==
    /\ planning = "cancelled"
    /\ pc = "raised"
    /\ extracted0.params = [q |-> "koala"]

\* -------------------------------------------------------------------------
\* The priority rule of the resolver
\* -------------------------------------------------------------------------

\* the last call met a cache without a usable entry for its identifier
CacheMiss ==
    /\ last.name # None
    /\ \A k \in {_key_scientific(last.name), _key_vernacular(last.name),
                  _key_synonym(last.name)} : k \notin DOMAIN last.before

AcceptedVernacular(d) ==
    /\ DictGet(d, "success") = TRUE
    /\ DictGet(d, "matchType") = "vernacularMatch"
    /\ DictGet(d, "nameType") \in {"INFORMAL", "COMMON"}

AcceptedScientific(d) ==
    /\ DictGet(d, "success") = TRUE
    /\ DictGet(d, "matchType") \in {"exactMatch", "phraseMatch", "taxonIdMatch"}
    /\ DictGet(d, "nameType") = "SCIENTIFIC"

\* the keys the last call wrote or overwrote
WrittenKeys ==
    {k \in DOMAIN cache : k \notin DOMAIN last.before \/ cache[k] # last.before[k]}

\* C12: on a cache miss for a non-LSID identifier, when both name-matching
\* calls answer, resolve_species_name has called each endpoint once and
\* returns the vernacular answer if it is a valid vernacular match, else the
\* scientific answer if it is a valid scientific match, else writes the
\* negative entry and returns absent; an answer of any other kind is neither
\* returned nor cached.
C12_PriorityRule ==
    (CacheMiss /\ ~MatchesLsidPattern(last.name) /\ ~last.raised) =>
        /\ last.ext = 2
        /\ IF AcceptedVernacular(last.vern_data)
           THEN last.ret = last.vern_data
           ELSE IF AcceptedScientific(last.sci_data)
           THEN last.ret = last.sci_data
           ELSE /\ last.ret = PyNone
                /\ _key_no_match(last.name) \in DOMAIN cache
                /\ WrittenKeys \subseteq {_key_no_match(last.name)}
        /\ \A k \in WrittenKeys \ {_key_no_match(last.name)} : cache[k] = last.ret

\* a fuzzy scientific answer without a vernacular match was rejected
C12_Witness ==
    /\ CacheMiss
    /\ last.name = "koala"
    /\ last.sci_data = KoalaFuzzy
    /\ last.vern_data = NoMatchAns
    /\ last.ret = PyNone
    /\ last.ext = 2

\* the last call resolved its identifier through the name-matching service
ResolvedByService == last.ext = 2 /\ ~last.raised /\ TruthyDict(last.ret)

HoldsUnder(key, r) == key \in DOMAIN cache /\ cache[key] = r

\* C13: after a successful resolution of input x yielding record r, the cache
\* holds r under the key of the literal input x, the key of r's scientific
\* name, the key of r's vernacular name when present, the synonym key of x
\* when x is a synonym, and the key of r's LSID; every key written by that
\* resolution holds r.
C13_StoredUnderEveryAlias ==
    ResolvedByService =>
        LET r == last.ret
            x == last.name
            sci == DictGet(r, "scientificName")
            vern == DictGet(r, "vernacularName")
            lsid == DictGet(r, "taxonConceptID")
        IN  /\ HoldsUnder(_key_scientific(x), r)
            /\ Truthy(sci) => HoldsUnder(_key_scientific(sci), r)
            /\ Truthy(vern) => HoldsUnder(_key_vernacular(vern), r)
            /\ (Truthy(DictGet(r, "synonymType")) /\ lower(x) # lower(sci)) =>
                   HoldsUnder(_key_synonym(x), r)
            /\ Truthy(lsid) /\ HoldsUnder(_key_lsid(lsid), r)
            /\ \A k \in WrittenKeys : cache[k] = r

\* a synonym was resolved and stored under its synonym key as well
C13_Witness ==
    /\ ResolvedByService
    /\ last.name = "Lipurus cinereus"
    /\ last.ret = KoalaSyn
    /\ HoldsUnder("synonym:lipurus cinereus", KoalaSyn)
    /\ HoldsUnder("lsid:https://biodiversity.org.au/afd/taxa/k1", KoalaSyn)

\* -------------------------------------------------------------------------
\* Failures on the way to the tools
\* -------------------------------------------------------------------------

\* a name-matching call of the last resolution failed with a connection error
ConnectionFailed == last.sci_data = ConnErr \/ last.vern_data = ConnErr

Replied(kind) == \E k \in 1..Len(replies) : replies[k].kind = kind

\* C14: when a name-matching call fails with a connection error,
\* resolve_species_name does not return absent and writes no negative cache
\* entry; the failure reaches the caller as an error, and the request handler
\* does not reply the "could not identify the species" clarification.
C14_ConnectionErrorIsNotNoMatch ==
    ConnectionFailed =>
        /\ last.raised
        /\ cache = last.before
        /\ _key_no_match(last.name) \notin DOMAIN cache
        /\ last.name \notin failed
        /\ pc = "raised"
        /\ error = "ConnectionError"
        /\ ~Replied("could_not_identify")
        /\ invoked = <<>>

\* the scientific call answered and the vernacular call failed
C14_Witness ==
    /\ last.name = "koala"
    /\ last.sci_data = KoalaFuzzy
    /\ last.vern_data = ConnErr
    /\ last.ext = 2
    /\ pc = "raised"

\* C15: when the cache store is unavailable (a get or a set fails),
\* resolve_species_name still completes: it does not raise, and for an
\* identifier that is not an LSID it has called the name-matching service and
\* leaves the cache as it was.
C15_StoreFailureIsNotFatal ==
    (last.redis # "up" /\ last.sci_data # ConnErr /\ last.vern_data # ConnErr) =>
        /\ ~last.raised
        /\ cache = last.before
        /\ ~MatchesLsidPattern(last.name) => last.ext = 2

\* parameter extraction failed in this request
ExtractionFailed == error = "ExtractionError"

\* C16: when parameter extraction fails the request ends with a reply to the
\* user that explains the failure, no plan is created and no tool is invoked,
\* and the error does not leave run as an exception.
C16_ExtractionFailureIsReplied ==
    ExtractionFailed =>
        /\ pc # "raised"
        /\ replies # <<>>
        /\ planning = None
        /\ plan = <<>>
        /\ invoked = <<>>

\* the resolver ran for this request and its identifier matched no taxon
Unmatched == res.called /\ ~last.raised /\ ~TruthyDict(last.ret)

\* the resolver ran for this request and the parameters held no identifier
NoIdentifier ==
    /\ res.ran
    /\ ~Truthy(DictGet(extracted0.params, "lsid"))
    /\ ~Truthy(_pick_species_identifier(extracted0.params))

\* C17: when the plan requires species resolution and the identifier matches
\* no taxon, or the parameters hold no identifier, the request handler replies
\* the clarification reason (naming the identifier when there is one) and
\* invokes no tool adapter in that request.
C17_UnresolvedSpeciesAsksUser ==
    /\ Unmatched =>
           /\ pc = "clarification"
           /\ replies = <<Reply("could_not_identify", last.name)>>
           /\ invoked = <<>>
    /\ NoIdentifier =>
           /\ pc = "clarification"
           /\ replies = <<Reply("need_species", None)>>
           /\ invoked = <<>>

\* an unknown name was looked up for a plan with a distribution entry
C17_Witness ==
    /\ Unmatched
    /\ last.name = "xyzzy"
    /\ \E k \in 1..Len(plan) : plan[k].tool_name = "get_species_distribution"
    /\ pc = "clarification"

\* -------------------------------------------------------------------------
\* Properties of the extractor
\* -------------------------------------------------------------------------

TemporalTriggerWords == {"before", "after", "since", "between", "during", "post"}

HasTemporalTrigger(query) ==
    \E w \in TemporalTriggerWords : Contains(lower(query), w)

HasTemporalParameter(params) ==
    \E p \in {"year", "startdate", "enddate", "month"} : p \in DOMAIN params

\* C18: for a query text containing a temporal trigger word (before, after,
\* since, between, during, post) extraction never returns a result whose
\* parameters lack every temporal parameter.
C18_TemporalQueryKeepsTemporalParameter ==
    (pc = "extracted" /\ HasTemporalTrigger(original_query)) =>
        HasTemporalParameter(extracted.params)

\* -------------------------------------------------------------------------
\* Plans without work, adapters without their identifier
\* -------------------------------------------------------------------------

\* the planner answered with an empty tool list
EmptyPlan == planning = "ok" /\ plan = <<>>

\* C19: for a plan whose tool list is empty the request handler runs no
\* species resolution and invokes no adapter, and the request ends with a
\* reply to the user.
C19_EmptyPlanDeclines ==
    (EmptyPlan /\ pc \notin {"plan", "resolve", "phase1", "phase2"}) =>
        /\ ~res.ran
        /\ invoked = <<>>
        /\ replies # <<>>

\* the parameter bag lacks the identifier the tool needs
LacksIdentifier(tool_name, params) ==
    CASE tool_name \in {"get_species_distribution", "get_species_images"} ->
             ~Truthy(DictGet(params, "lsid")) /\ ~Truthy(DictGet(params, "id"))
      [] tool_name = "get_occurrence_taxa_count" ->
             ~Truthy(DictGet(params, "lsid"))
      [] tool_name = "lookup_species_info" ->
             \A key \in {"scientific_name", "species_name", "common_name", "q"} :
                 ~Truthy(DictGet(params, key))
      [] OTHER -> FALSE

\* C20: an adapter that needs an identifier (species distribution, species
\* images and taxa count an LSID, species info a name), invoked with a
\* parameter bag that lacks it, returns a failed outcome with a message,
\* makes no external request and raises no exception.
C20_MissingIdentifierFailsCleanly ==
    \A k \in 1..Len(invoked) :
        LacksIdentifier(invoked[k].tool_name, extracted.params) =>
            /\ ~invoked[k].success
            /\ ~invoked[k].raised
            /\ ~invoked[k].requested
            /\ Truthy(invoked[k].message)

\* the distribution adapter was given a bag with a name and no LSID
C20_Witness ==
    /\ pc = "tools"
    /\ extracted.params = [q |-> "koala"]
    /\ Len(invoked) = 1
    /\ invoked[1].tool_name = "get_species_distribution"
    /\ ~invoked[1].success

\* -------------------------------------------------------------------------
\* C21: the fallback of the species search workflow
\* -------------------------------------------------------------------------

\* the species API call was made and raised
PrimaryCallFailed ==
    search.called /\ IsRaise(search.species_api)

\* the species API call was made and answered
PrimaryCallSucceeded ==
    /\ search.called
    /\ search.outcome.execute_species_search > 0
    /\ ~IsRaise(search.species_api)

\* the returned text says it was built from occurrence records
CarriesOccurrenceNote ==
    Contains(search.outcome.result,
             "Note: This information was retrieved from occurrence records")

\* the occurrence search answered with a positive total and a record
FallbackFoundRecords ==
    /\ ~IsRaise(search.occurrence_api)
    /\ "totalRecords" \in DOMAIN search.occurrence_api
    /\ search.occurrence_api.totalRecords # 0
    /\ "occurrences" \in DOMAIN search.occurrence_api
    /\ Len(search.occurrence_api.occurrences) > 0

\* C21 (as stated): after search_species, no exception has left the method;
\* if the species API call failed, the occurrence search ran exactly once and
\* the returned summary carries the occurrence-records note; if the species
\* API call succeeded, the occurrence search did not run.
C21_FallbackExactlyWhenPrimaryCallFails ==
    search.called =>
        /\ ~search.outcome.raised
        /\ PrimaryCallFailed =>
              search.outcome.execute_search = 1 /\ CarriesOccurrenceNote
        /\ PrimaryCallSucceeded => search.outcome.execute_search = 0

\* C21 (amended): after search_species, no exception has left the method; if
\* the species API call or the formatting of its answer failed, the
\* occurrence search ran exactly once, and the returned text carries the
\* occurrence-records note exactly when that search found records; if the
\* call and the formatting succeeded, the occurrence search did not run and
\* the text carries no such note.
C21_FallbackWhenPrimaryWorkflowFails ==
    search.called =>
        /\ ~search.outcome.raised
        /\ (PrimaryCallFailed \/ (PrimaryCallSucceeded /\ ~search.formatted)) =>
              /\ search.outcome.execute_search = 1
              /\ CarriesOccurrenceNote <=> FallbackFoundRecords
        /\ (PrimaryCallSucceeded /\ search.formatted) =>
              /\ search.outcome.execute_search = 0
              /\ ~CarriesOccurrenceNote

\* the species API call failed and the fallback built its summary from an
\* occurrence record
C21_Witness ==
    /\ PrimaryCallFailed
    /\ search.outcome.execute_search = 1
    /\ FallbackFoundRecords
    /\ CarriesOccurrenceNote

\* -------------------------------------------------------------------------
\* C22: the order of the adapter invocations
\* -------------------------------------------------------------------------

\* the invocations made for entries of priority p, in the order made
InvokedAs(p) == SelectSeq(invoked, LAMBDA r : r.priority = p)

\* the invocations made for entries of priority p are entries of that
\* priority in the plan, taken in the plan's order
FollowsPlanOrder(p) ==
    LET made == InvokedAs(p)
    IN  \E at \in [1..Len(made) -> 1..Len(plan)] :
            /\ \A k \in 1..Len(made) :
                  /\ plan[at[k]].tool_name = made[k].tool_name
                  /\ plan[at[k]].priority = p
            /\ \A k, l \in 1..Len(made) : k < l => at[k] < at[l]

\* C22: no must-call invocation is made after an optional one, the
\* invocations of each phase follow the order of the plan, and at most one
\* adapter call is awaited at any time.
C22_MustCallFirstInPlanOrderOneAtATime ==
    /\ \A k, l \in 1..Len(invoked) :
          k < l => ~(invoked[k].priority = "optional"
                        /\ invoked[l].priority = "must_call")
    /\ in_flight # {} /\ pc = "phase1" => InvokedAs("optional") = <<>>
    /\ FollowsPlanOrder("must_call")
    /\ FollowsPlanOrder("optional")
    /\ Cardinality(in_flight) <= 1

\* an optional entry stands before a must-call entry in the plan, and the
\* must-call adapter was invoked first
C22_Witness ==
    /\ Len(plan) >= 2
    /\ plan[1].priority = "optional"
    /\ plan[2].priority = "must_call"
    /\ Len(invoked) >= 2
    /\ invoked[1].tool_name = plan[2].tool_name
    /\ invoked[1].priority = "must_call"
    /\ invoked[2].tool_name = plan[1].tool_name
    /\ invoked[2].priority = "optional"
    /\ in_flight = {}

\* -------------------------------------------------------------------------
\* C23: exceptions raised by adapters
\* -------------------------------------------------------------------------

\* the k-th adapter invocation raised
AdapterRaised(k) == k \in 1..Len(invoked) /\ invoked[k].raised

\* the registered optional entries of the plan
RegisteredOptionalNames ==
    {plan[k].tool_name : k \in {n \in 1..Len(plan) : plan[n].priority = "optional"}}
        \cap RegisteredTools

\* C23: an exception raised by an adapter is a failed outcome and does not
\* leave the coordinator; raised by a must-call adapter, it is the last
\* invocation of the request, which ends aborted with the failure message as
\* its last reply; raised by an optional adapter, the request goes on and
\* completes only after every registered optional entry was invoked or had
\* been executed before.
C23_AdapterExceptionBecomesFailedOutcome ==
    \A k \in 1..Len(invoked) :
        AdapterRaised(k) =>
            /\ ~invoked[k].success
            /\ error = None
            /\ pc # "raised"
            /\ invoked[k].priority = "must_call" =>
                  /\ k = Len(invoked)
                  /\ pc = "aborted"
                  /\ in_flight = {}
                  /\ replies # <<>>
                  /\ replies[Len(replies)]
                         = Reply("required_failed", invoked[k].tool_name)
            /\ invoked[k].priority = "optional" =>
                  /\ pc \in {"phase2", "completed"}
                  /\ pc = "completed" =>
                        \A t \in RegisteredOptionalNames :
                            \/ InSeq(t, executed_tools)
                            \/ \E l \in 1..Len(invoked) :
                                  /\ invoked[l].tool_name = t
                                  /\ invoked[l].priority = "optional"

\* an optional adapter raised and the next optional entry was invoked
C23_Witness ==
    \E k, l \in 1..Len(invoked) :
        /\ k < l
        /\ AdapterRaised(k)
        /\ invoked[k].priority = "optional"
        /\ invoked[l].priority = "optional"
        /\ invoked[l].tool_name # invoked[k].tool_name
        /\ pc = "completed"

\* -------------------------------------------------------------------------
\* C24: an identifier only optional entries need
\* -------------------------------------------------------------------------

\* no must-call entry of the plan is a tool that needs a resolved LSID
OnlyOptionalEntriesNeedLsid ==
    \A k \in 1..Len(plan) :
        plan[k].priority = "must_call" => plan[k].tool_name \notin LsidTools

\* C24: when no must-call entry of the plan needs a resolved LSID, the
\* request is not ended by a species that could not be resolved: it goes on
\* to execute its must-call entries.
C24_OptionalOnlyLsidNeedNeverAborts ==
    (planning # None /\ OnlyOptionalEntriesNeedLsid) =>
        ~(res.ran /\ pc = "clarification")

\* -------------------------------------------------------------------------
\* C25: a clarification the extractor asked for
\* -------------------------------------------------------------------------

\* C25: when the extractor returned clarification_needed = true, no adapter
\* is called in the request, whether the species resolution was skipped or
\* ran and succeeded.
C25_ExtractorClarificationBlocksTools ==
    extracted0.clarification_needed => (invoked = <<>> /\ in_flight = {})

\* -------------------------------------------------------------------------
\* C26: cached records are never rewritten
\* -------------------------------------------------------------------------

\* the keys that hold a positive record (not a negative-result marker)
PositiveKeys(c) ==
    {k \in DOMAIN c : TruthyDict(c[k]) /\ ~startswith(k, "noMatch:")}

\* C26: a resolve leaves every key that holds a positive record with the
\* value it had.
C26_CachedRecordsAreImmutable ==
    [][\A k \in PositiveKeys(cache) : k \in DOMAIN cache' /\ cache'[k] = cache[k]]_vars

\* -------------------------------------------------------------------------
\* C27: concurrent resolves of one uncached identifier
\* -------------------------------------------------------------------------

\* every concurrent request has left resolve_species_name
AllTasksDone ==
    conc.name # None /\ \A t \in Tasks : conc.task[t].at = "done"

\* what one resolve on its own would have returned and left in the cache
SingleResolve ==
    resolve_species_name(conc.before, conc.name, conc.sci_data, conc.vern_data)

\* C27: when the requests that resolved the same uncached identifier
\* concurrently, with identical answers of the name-matching service, have
\* all returned, the cache is the one a single resolve leaves, and every
\* request returned what the single resolve returns (or raised as it does).
C27_ConcurrentResolvesAgree ==
    AllTasksDone =>
        /\ cache = SingleResolve.cache
        /\ \A t \in Tasks :
              /\ conc.task[t].ret = SingleResolve.ret
              /\ conc.task[t].raised = SingleResolve.raised

\* both requests missed the cache, called the service and stored the record,
\* their writes interleaved
C27_Witness ==
    /\ AllTasksDone
    /\ TruthyDict(SingleResolve.ret)
    /\ conc.task["A"].ret = SingleResolve.ret
    /\ conc.task["B"].ret = SingleResolve.ret
    /\ cache # conc.before

\* -------------------------------------------------------------------------
\* C28, C29: what resolve_unresolved_params does to the parameter bag
\* -------------------------------------------------------------------------

\* resolve_unresolved_params returned after a resolve_species_name call
ReturnedAfterResolution == pc = "resolved" /\ res.called

C29_ResolverOnlyAddsKeys ==
    [][pc = "resolve_params" =>
          /\ DOMAIN extracted.params \subseteq DOMAIN extracted'.params
          /\ \A k \in DOMAIN extracted.params \ {"lsid", "id"} :
                extracted'.params[k] = extracted.params[k]
          /\ Truthy(DictGet(extracted.params, "lsid")) =>
                /\ extracted' = extracted
                /\ cache' = cache
                /\ ~res'.called
                /\ res'.ext = 0
                /\ last' = last]_vars

\* a bag that held its own common_name and rank was resolved to a record
\* that carries other values for them
C29_Witness ==
    /\ ReturnedAfterResolution
    /\ ~extracted.clarification_needed
    /\ "common_name" \in DOMAIN extracted0.params
    /\ "vernacularName" \in DOMAIN last.ret
    /\ Truthy(last.ret["vernacularName"])
    /\ extracted0.params["common_name"] # last.ret["vernacularName"]
    /\ extracted.params["common_name"] = extracted0.params["common_name"]

\* -------------------------------------------------------------------------
\* C30: the year filter of the two occurrence URLs
\* -------------------------------------------------------------------------

UnquoteCode(code) ==
    CASE code = "20" -> " " [] code = "3A" -> ":" [] code = "5B" -> "["
      [] code = "5D" -> "]" [] code = "2A" -> "*" [] code = "3C" -> "<"
      [] code = "3E" -> ">" [] code = "2B" -> "+" [] code = "2C" -> ","

RECURSIVE Unquote(_)
Unquote(s) ==
    IF s = "" THEN ""
    ELSE IF SubSeq(s, 1, 1) = "%"
    THEN UnquoteCode(SubSeq(s, 2, 3)) \o Unquote(SubSeq(s, 4, Len(s)))
    ELSE SubSeq(s, 1, 1) \o Unquote(SubSeq(s, 2, Len(s)))

\* the years the observations are taken from
Years == MinYear..MaxYear

\* a bound of a range matches: "*" is open, a number is compared
AtLeast(y, lo) == lo = "*" \/ (isdigit(lo) /\ int(lo) <= y)

AtMost(y, hi) == hi = "*" \/ (isdigit(hi) /\ y <= int(hi))

\* the year y satisfies the filter "year:V" or "year:[A TO B]"; a value that
\* is neither a number nor a range matches no year
Satisfies(y, filter) ==
    /\ startswith(filter, "year:")
    /\ LET body == SubSeq(filter, Len("year:") + 1, Len(filter))
       IN  IF startswith(body, "[") /\ endswith(body, "]") /\ Contains(body, " TO ")
           THEN LET inner == SubSeq(body, 2, Len(body) - 1)
                    k == CHOOSE n \in 1..Len(inner) :
                             SubSeq(inner, n, n + Len(" TO ") - 1) = " TO "
                IN  /\ AtLeast(y, SubSeq(inner, 1, k - 1))
                    /\ AtMost(y, SubSeq(inner, k + Len(" TO "), Len(inner)))
           ELSE isdigit(body) /\ int(body) = y

\* the years that satisfy every fq filter of a query string
YearsOf(query_string) ==
    LET fqs == split(query_string, "&")
    IN  {y \in Years :
            \A k \in 1..Len(fqs) :
                /\ startswith(fqs[k], "fq=")
                /\ Satisfies(y, Unquote(SubSeq(fqs[k], Len("fq=") + 1, Len(fqs[k]))))}

\* C30: for every year expression of the extraction prompt, the filters of
\* build_occurrence_url and of build_occurrence_facets_url select the same
\* years.
C30_YearFiltersAgree ==
    urls.built => YearsOf(urls.occurrence) = YearsOf(urls.facets)

====
